---- MODULE Spec2Model ----
(***************************************************************************)
(* Team formation and track allocation of tecacm/hackregistration          *)
(* (friends/matchmaking.py, friends/services.py, friends/models.py,        *)
(* friends/views.py, friends/admin.py).                                    *)
(*                                                                         *)
(* The specifications of this module:                                      *)
(*   SpecPack   the packing of one matching pass, one loop iteration of    *)
(*              _build_match_groups per step;                              *)
(*   SpecMatch  the merge pool: roster and status changes, and matching    *)
(*              passes committing group by group;                          *)
(*   SpecOptIn, SpecReplay  opt-in calls, alone and around passes;         *)
(*   SpecAlloc, SpecRebal, SpecPrefs  the track tables with the Allocator  *)
(*              and the Rebalancer passes;                                 *)
(*   SpecMergeFail, SpecAllocFail  passes in which a notification fails;   *)
(*   SpecForm   TrackPreferenceForm on the posted selections;              *)
(*   SpecRace   two opt-in calls interleaved statement by statement;       *)
(*   SpecTwoPass  a matching pass with another pass between its steps;     *)
(*   SpecDryRun  the Allocator run with dry_run=True.                      *)
(* Each specification leaves the variables of the others at their idle     *)
(* values.                                                                 *)
(***************************************************************************)
EXTENDS Integers, Sequences, FiniteSets, TLC

(***************************************************************************)
(* Bounds of the model.                                                    *)
(***************************************************************************)
\* entries handed to the packing in SpecPack
MaxEntries == 5
\* users of the merge-pool specifications
MaxUsers == 4
\* roster and status changes in one behaviour
MaxDrift == 1
\* matching passes in one behaviour
MaxPasses == 2
MaxOptIns == 2
\* opt-in calls that run concurrently in SpecRace
MaxCalls == 2
\* matching passes in one behaviour of SpecReplay
MaxReplayPasses == 1
MaxTeams == 2
MaxSubmits == 2
MaxAdmin == 1
MaxRebalAdmin == 2
MaxAllocRuns == 1
MaxRebalRuns == 1
\* administrator steps in one behaviour of SpecPrefs
MaxPrefsAdmin == 2

(***************************************************************************)
(* Program constants.                                                      *)
(***************************************************************************)
\* matchmaking.py:28  TARGET_TEAM_SIZE = getattr(settings, 'FRIENDS_MAX_CAPACITY', 4) or 4
TARGET_TEAM_SIZE == 4
\* matchmaking.py:455  target=3 of the deadline packing
DEADLINE_TARGET == 3
\* hackathon_variables.py:25 names the setting; the value is the team size
\* the merge target stands for (matchmaking.py:28)
FRIENDS_MAX_CAPACITY == 4
\* services.py:146 `capacity is None`: a track with no limit
NoCap == 0 - 1

(***************************************************************************)
(* General helpers.                                                        *)
(***************************************************************************)
Range(s) == {s[i] : i \in 1..Len(s)}

RECURSIVE SumSeq(_)
SumSeq(s) == IF s = <<>> THEN 0 ELSE Head(s) + SumSeq(Tail(s))

\* the sizes of the entries of a group, in the group's order
SizesOf(g, counts) == [i \in 1..Len(g) |-> counts[g[i]]]

(***************************************************************************)
(* _build_match_groups: buckets and the two greedy loops.                  *)
(***************************************************************************)
\* SizeBuckets with each bucket newest first
SizeBuckets_NewestFirst(order, counts) ==
  [k \in 1..3 |->
     LET bucket == SelectSeq(order, LAMBDA c : counts[c] = k)
     IN  [i \in 1..Len(bucket) |-> bucket[Len(bucket) + 1 - i]]]

\* matchmaking.py:559-564: one bucket per size 1..3, each in created_at
\* order. `order` lists the codes by created_at (the pass's query order).
SizeBuckets(order, counts) ==
  [k \in 1..3 |-> SelectSeq(order, LAMBDA c : counts[c] = k)]

\* the pops of one iteration: the bucket without the codes of group g
PopGroup(b, g) ==
  [k \in 1..3 |-> SelectSeq(b[k], LAMBDA c : c \notin Range(g))]

\* TakeGroup4 with the first two branches exchanged: pairs of 2 before 3+1
TakeGroup4_PairsFirst(b) ==
  IF Len(b[2]) >= 2 THEN <<b[2][1], b[2][2]>>
  ELSE IF b[3] # <<>> /\ b[1] # <<>> THEN <<b[3][1], b[1][1]>>
  ELSE IF b[2] # <<>> /\ Len(b[1]) >= 2 THEN <<b[2][1], b[1][1], b[1][2]>>
  ELSE IF Len(b[1]) >= 4 THEN <<b[1][1], b[1][2], b[1][3], b[1][4]>>
  ELSE <<>>

\* TakeGroup4 without the third branch, 2+1+1
TakeGroup4_NoTwoOneOne(b) ==
  IF b[3] # <<>> /\ b[1] # <<>> THEN <<b[3][1], b[1][1]>>
  ELSE IF Len(b[2]) >= 2 THEN <<b[2][1], b[2][2]>>
  ELSE IF Len(b[1]) >= 4 THEN <<b[1][1], b[1][2], b[1][3], b[1][4]>>
  ELSE <<>>

\* matchmaking.py:570-591: the group one iteration of the target-4 loop
\* takes, or <<>> at the break
TakeGroup4(b) ==
  IF b[3] # <<>> /\ b[1] # <<>> THEN <<b[3][1], b[1][1]>>
  ELSE IF Len(b[2]) >= 2 THEN <<b[2][1], b[2][2]>>
  ELSE IF b[2] # <<>> /\ Len(b[1]) >= 2 THEN <<b[2][1], b[1][1], b[1][2]>>
  ELSE IF Len(b[1]) >= 4 THEN <<b[1][1], b[1][2], b[1][3], b[1][4]>>
  ELSE <<>>

\* TakeGroup3 with the first two branches exchanged: 2+1 before 3 alone
TakeGroup3_PairFirst(b) ==
  IF b[2] # <<>> /\ b[1] # <<>> THEN <<b[2][1], b[1][1]>>
  ELSE IF b[3] # <<>> THEN <<b[3][1]>>
  ELSE IF Len(b[1]) >= 3 THEN <<b[1][1], b[1][2], b[1][3]>>
  ELSE <<>>

\* matchmaking.py:593-609: the group one iteration of the target-3 loop
\* takes, or <<>> at the break
TakeGroup3(b) ==
  IF b[3] # <<>> THEN <<b[3][1]>>
  ELSE IF b[2] # <<>> /\ b[1] # <<>> THEN <<b[2][1], b[1][1]>>
  ELSE IF Len(b[1]) >= 3 THEN <<b[1][1], b[1][2], b[1][3]>>
  ELSE <<>>

\* matchmaking.py:557-558, 569, 592: targets below 3 form nothing, target 4
\* runs the first loop and every other target the second
TakeGroup(b, target) ==
  IF target < 3 THEN <<>>
  ELSE IF target = 4 THEN TakeGroup4(b)
  ELSE TakeGroup3(b)

\* matchmaking.py:551-610: the whole loop, as the list of groups
RECURSIVE PackLoop(_, _)
PackLoop(b, target) ==
  LET g == TakeGroup(b, target)
  IN  IF g = <<>> THEN <<>>
      ELSE <<g>> \o PackLoop(PopGroup(b, g), target)

BuildMatchGroups(order, counts, target) ==
  PackLoop(SizeBuckets(order, counts), target)

RECURSIVE UsedCodes(_)
UsedCodes(gs) == IF gs = <<>> THEN {} ELSE Range(Head(gs)) \cup UsedCodes(Tail(gs))

(***************************************************************************)
(* SpecPack: the packing of run_matching, step by step.                    *)
(*   member_counts  the re-validated counts of the pass (the input)         *)
(*   allow_size_three  the parameter of run_matching                        *)
(*   size_buckets, groups, used_codes  the locals of _build_match_groups    *)
(*   pack_target  4 or 3 while that loop runs, 0 when the packing is over   *)
(*   pack_call  "run_matching": the packing of a pass (target 4, then 3 on  *)
(*              the codes left when allow_size_three); "direct": one call   *)
(*              _build_match_groups(..., target=3) on the input itself      *)
(* Codes are listed 1..n in created_at order.                              *)
(***************************************************************************)
VARIABLES member_counts, allow_size_three, size_buckets, groups, used_codes,
          pack_target, pack_call

packVars == <<member_counts, allow_size_three, size_buckets, groups,
              used_codes, pack_target, pack_call>>

PackOrder == [i \in 1..Len(member_counts) |-> i]

PackIdle ==
  /\ member_counts = <<>>
  /\ allow_size_three = FALSE
  /\ size_buckets = [k \in 1..3 |-> <<>>]
  /\ groups = <<>>
  /\ used_codes = {}
  /\ pack_target = 0
  /\ pack_call = "run_matching"

\* matchmaking.py:449: the first call, target=TARGET_TEAM_SIZE; or the
\* direct call with target=3
PackStart ==
  /\ \E n \in 1..MaxEntries : member_counts \in [1..n -> 1..3]
  /\ allow_size_three \in BOOLEAN
  /\ size_buckets = SizeBuckets(PackOrder, member_counts)
  /\ groups = <<>>
  /\ used_codes = {}
  /\ pack_call \in {"run_matching", "direct"}
  /\ pack_target = IF pack_call = "direct" THEN DEADLINE_TARGET
                   ELSE TARGET_TEAM_SIZE

\* one iteration that forms a group (any of the `continue` branches)
PackTake ==
  /\ pack_target # 0
  /\ TakeGroup(size_buckets, pack_target) # <<>>
  /\ LET g == TakeGroup(size_buckets, pack_target)
     IN  /\ groups' = Append(groups, [codes |-> g, target |-> pack_target])
         /\ used_codes' = used_codes \cup Range(g)
         /\ size_buckets' = PopGroup(size_buckets, g)
  /\ UNCHANGED <<member_counts, allow_size_three, pack_target, pack_call>>

\* the break of the target-4 loop with allow_size_three: run_matching calls
\* _build_match_groups again on the codes not used (matchmaking.py:452-455)
PackDeadline ==
  /\ pack_target = TARGET_TEAM_SIZE
  /\ TakeGroup(size_buckets, pack_target) = <<>>
  /\ allow_size_three
  /\ size_buckets' =
       SizeBuckets(SelectSeq(PackOrder, LAMBDA c : c \notin used_codes),
                   member_counts)
  /\ pack_target' = DEADLINE_TARGET
  /\ UNCHANGED <<member_counts, allow_size_three, groups, used_codes,
                 pack_call>>

\* the last break: the packing is over
PackBreak ==
  /\ pack_target # 0
  /\ TakeGroup(size_buckets, pack_target) = <<>>
  /\ pack_target = TARGET_TEAM_SIZE => ~allow_size_three
  /\ pack_target' = 0
  /\ UNCHANGED <<member_counts, allow_size_three, size_buckets, groups,
                 used_codes, pack_call>>

(***************************************************************************)
(* The stored tables shared by SpecMatch, SpecOptIn, SpecAlloc, SpecRebal.  *)
(*   friends     the FriendsCode rows; the index of a row is its primary    *)
(*               key, a deleted row stays in the sequence with live FALSE   *)
(*   app_status  the status of each user's application for the edition,    *)
(*               "none" when the user has none                              *)
(*   pool        the FriendsMergePoolEntry rows of the edition, by          *)
(*               team_code (unique_together edition, team_code)             *)
(*   events      the FriendsMergeEventLog rows, oldest first                *)
(*   outbox      the recipient sets of the merge mails sent, oldest first   *)
(* Users are 1..MaxUsers; the address of a user is the user. Team codes are *)
(* positive numbers, 0 is the empty code ''.                               *)
(***************************************************************************)
VARIABLES friends, app_status, pool, events, outbox

tableVars == <<friends, app_status, pool, events, outbox>>

Users == 1..MaxUsers

\* models.py:49-53 STATUS_NOT_ALLOWED_TO_JOIN_TEAM is represented by
\* "confirmed", every other non-pending status by "rejected"
AppStatuses == {"none", "pending", "confirmed", "rejected"}

\* models.py:20-47: a row as FriendsCode(user=u, code=c) creates it
NewRow(u, c) ==
  [user |-> u, code |-> c, live |-> TRUE, seeking_merge |-> FALSE,
   track_pref |-> <<"", "", "">>, track_pref_submitted_at |-> 0,
   track_assigned |-> ""]

LiveRows == {i \in 1..Len(friends) : friends[i].live}

\* FriendsCode.objects.filter(code=c)
RowsOf(c) == {i \in LiveRows : friends[i].code = c}

\* get_user_model().objects.filter(friendscode__code=c).distinct()
MembersOf(c) == {friends[i].user : i \in RowsOf(c)}

\* the codes that occur in the tables, live or not
KnownCodes == {friends[i].code : i \in 1..Len(friends)} \cup DOMAIN pool

SetMax(S) == IF S = {} THEN 0 ELSE CHOOSE x \in S : \A y \in S : y <= x
SetMin(S) == CHOOSE x \in S : \A y \in S : x <= y

\* the numbers of S in ascending order
RECURSIVE SortByCode(_)
SortByCode(S) ==
  IF S = {} THEN <<>> ELSE <<SetMin(S)>> \o SortByCode(S \ {SetMin(S)})

\* models.py:14-17 get_random_string: a code no row and no entry carries
FreshCode == SetMax(KnownCodes) + 1

\* matchmaking.py:72-75: .first() orders by primary key
CurrentTeamCode(u) ==
  LET mine == {i \in LiveRows : friends[i].user = u}
  IN  IF mine = {} THEN 0 ELSE friends[SetMin(mine)].code

\* EligibleIn that returns the pending members whatever the others are
EligibleIn_PendingOnly(fr, c) ==
  LET member_users == {fr[i].user : i \in {j \in 1..Len(fr) : fr[j].live /\ fr[j].code = c}}
  IN  {u \in member_users : app_status[u] = "pending"}

\* matchmaking.py:107-123 on the rows fr: all members or nobody
EligibleIn(fr, c) ==
  LET member_users == {fr[i].user : i \in {j \in 1..Len(fr) : fr[j].live /\ fr[j].code = c}}
      eligible == {u \in member_users : app_status[u] = "pending"}
  IN  IF member_users = {} THEN {}
      ELSE IF Cardinality(eligible) # Cardinality(member_users) THEN {}
      ELSE eligible

EligibleTeamMembers(c) == EligibleIn(friends, c)

\* matchmaking.py:125-127
TeamMemberCount(c) == Cardinality(EligibleTeamMembers(c))

\* the codes of the entries with status st, by created_at
RECURSIVE SortByCreated(_)
SortByCreated(S) ==
  IF S = {} THEN <<>>
  ELSE LET c == CHOOSE x \in S : \A y \in S : pool[x].created_at <= pool[y].created_at
       IN  <<c>> \o SortByCreated(S \ {c})

\* SetSeeking that updates no row
SetSeeking_NoRow(fr, c, v) ==
  fr

\* FriendsCode.objects.filter(code=c).update(seeking_merge=v) on the rows fr
SetSeeking(fr, c, v) ==
  [i \in 1..Len(fr) |->
     IF fr[i].live /\ fr[i].code = c THEN [fr[i] EXCEPT !.seeking_merge = v]
     ELSE fr[i]]

LogEvent(entry, type, dup) ==
  [entry |-> entry, event_type |-> type, duplicate |-> dup]

(***************************************************************************)
(* The roster and the application workflow, outside the engine.             *)
(*   drift  how many such changes have happened (bounded by MaxDrift)       *)
(***************************************************************************)
VARIABLES drift, optins

budgetVars == <<drift, optins>>

\* models.py:75-79 reached_max_capacity
ReachedMaxCapacity(c) == Cardinality(RowsOf(c)) >= FRIENDS_MAX_CAPACITY

\* models.py:58-64 is_closed
IsClosed(c) == \E i \in RowsOf(c) : app_status[friends[i].user] = "confirmed"

(***************************************************************************)
(* SpecMatch: matching passes over a pool, with roster and status changes   *)
(* arriving between the steps of a pass.                                    *)
(*   run_pc       "idle", or "merge" between the packing of a pass and its  *)
(*                return                                                    *)
(*   run_groups   the groups of the pass not yet handed to _merge_entries   *)
(*   run_allow3, run_trigger  the parameters of the current or last pass    *)
(*   results      the MatchGroupResults of the current or last pass, each   *)
(*                with the codes, target and commit-time counts of its group*)
(*   passes       how many passes have begun (bounded by MaxPasses)         *)
(***************************************************************************)
VARIABLES run_pc, run_groups, run_allow3, run_trigger, results, passes

runVars == <<run_pc, run_groups, run_allow3, run_trigger, results, passes>>

\* PendingOrder without the status filter
PendingOrder_AnyStatus ==
  SortByCreated(DOMAIN pool)

\* matchmaking.py:420-423: the Pending entries of the edition by created_at
PendingOrder ==
  SortByCreated({c \in DOMAIN pool : pool[c].status = "pending"})

\* PrunedCodes that prunes the teams without eligible members only
PrunedCodes_ZeroOnly(order, counts) ==
  SelectSeq(order, LAMBDA c : counts[c] = 0)

\* matchmaking.py:433-434: the codes the pass prunes
PrunedCodes(order, counts) ==
  SelectSeq(order, LAMBDA c : counts[c] = 0 \/ counts[c] > TARGET_TEAM_SIZE - 1)

TagGroups(gs, target) ==
  [i \in 1..Len(gs) |-> [codes |-> gs[i], target |-> target]]

\* matchmaking.py:449-458: the groups of a pass over the codes kept
RunGroups(kept, counts, a3) ==
  LET g4 == BuildMatchGroups(kept, counts, TARGET_TEAM_SIZE)
      rest == SelectSeq(kept, LAMBDA c : c \notin UsedCodes(g4))
      g3 == IF a3 THEN BuildMatchGroups(rest, counts, DEADLINE_TARGET) ELSE <<>>
  IN  TagGroups(g4, TARGET_TEAM_SIZE) \o TagGroups(g3, DEADLINE_TARGET)

\* matchmaking.py:633-638: the first code with the most eligible members
HostOf(codes, members_map) ==
  LET best == SetMax({Cardinality(members_map[c]) : c \in Range(codes)})
  IN  codes[SetMin({i \in 1..Len(codes) : Cardinality(members_map[codes[i]]) = best})]

\* AllApplications of the first team only
AllApplications_FirstTeam(codes, members_map) ==
  members_map[codes[1]]

\* matchmaking.py:640-643: the applications of all teams of the group, one
\* for each user
AllApplications(codes, members_map) ==
  UNION {members_map[c] : c \in Range(codes)}

\* MergedRows that rewrites the rows of the first non-host code only
MergedRows_FirstOnly(fr, codes, host) ==
  LET others == SelectSeq(codes, LAMBDA c : c # host)
      moved == [i \in 1..Len(fr) |->
                  IF fr[i].live /\ others # <<>> /\ fr[i].code = others[1]
                  THEN [fr[i] EXCEPT !.code = host] ELSE fr[i]]
  IN  SetSeeking(moved, host, FALSE)

\* matchmaking.py:657-658: every row of a non-host code gets the host code,
\* then every row of the host code has seeking_merge cleared
MergedRows(fr, codes, host) ==
  LET moved == [i \in 1..Len(fr) |->
                  IF fr[i].live /\ fr[i].code \in Range(codes) /\ fr[i].code # host
                  THEN [fr[i] EXCEPT !.code = host] ELSE fr[i]]
  IN  SetSeeking(moved, host, FALSE)

(***************************************************************************)
(* History of a behaviour, read by the claims only.                         *)
(*   since_begin   no roster, status or opt-in step since the running or    *)
(*                 last pass began                                          *)
(*   since_return  "clean": a pass has returned, nothing has happened       *)
(*                 since, and nothing happened while it ran; "disturbed":   *)
(*                 the same, but something happened while it ran; "none"    *)
(*                 otherwise                                                *)
(*   rerun         the value of since_return when the running or last pass  *)
(*                 began, if that pass has the parameters of the pass       *)
(*                 before it, "none" otherwise                              *)
(*   last_optin    the opt-in call the history follows: its user, token     *)
(*                 code and result, its number among the calls (seq), and   *)
(*                 in after the value of optin_gap when it was made if the  *)
(*                 call before it that the history followed had the same    *)
(*                 token and succeeded, "other" if not                      *)
(*   optin_gap     what has happened since that call: "none", "status"      *)
(*                 (application status changes only) or "other"             *)
(***************************************************************************)
VARIABLES since_begin, since_return, rerun, last_optin, optin_gap

histVars == <<since_begin, since_return, rerun, last_optin, optin_gap>>

NoOptIn ==
  [user |-> 0, team_code |-> 0, result |-> "none", seq |-> 0, after |-> "other"]

HistIdle ==
  /\ since_begin = FALSE
  /\ since_return = "none"
  /\ rerun = "none"
  /\ last_optin = NoOptIn
  /\ optin_gap = "other"

\* a roster step (create, join, leave)
HistRoster ==
  /\ since_begin' = FALSE
  /\ since_return' = "none"
  /\ optin_gap' = "other"
  /\ UNCHANGED <<rerun, last_optin>>

\* an application status step
HistStatus ==
  /\ since_begin' = FALSE
  /\ since_return' = "none"
  /\ optin_gap' = IF optin_gap = "other" THEN "other" ELSE "status"
  /\ UNCHANGED <<rerun, last_optin>>

(***************************************************************************)
(* run_matching, one step per group.                                        *)
(***************************************************************************)
\* matchmaking.py:418-458: the snapshot, the re-validation, the pruning and
\* the packing
RunBegin(a3, tr) ==
  /\ run_pc = "idle"
  /\ passes < MaxPasses
  /\ LET order == PendingOrder
         counts == [c \in Range(order) |-> TeamMemberCount(c)]
         pruned == PrunedCodes(order, counts)
         kept == SelectSeq(order, LAMBDA c : c \notin Range(pruned))
     IN  /\ pool' = [c \in DOMAIN pool |->
                       IF c \in Range(pruned)
                       THEN [pool[c] EXCEPT !.status = "removed"] ELSE pool[c]]
         /\ events' = events \o
                        [i \in 1..Len(pruned) |-> LogEvent(pruned[i], "removed", FALSE)]
         /\ friends' = [i \in 1..Len(friends) |->
                          IF friends[i].live /\ friends[i].code \in Range(pruned)
                          THEN [friends[i] EXCEPT !.seeking_merge = FALSE]
                          ELSE friends[i]]
         /\ run_groups' = RunGroups(kept, counts, a3)
  /\ run_pc' = "merge"
  /\ run_allow3' = a3
  /\ run_trigger' = tr
  /\ results' = <<>>
  /\ passes' = passes + 1
  /\ since_begin' = TRUE
  /\ rerun' = IF a3 = run_allow3 /\ tr = run_trigger THEN since_return ELSE "none"
  /\ optin_gap' = "other"
  /\ UNCHANGED <<app_status, outbox, budgetVars, since_return, last_optin>>

\* matchmaking.py:460-464 with _merge_entries (613-684) on the next group
MergeGroup ==
  /\ run_pc = "merge"
  /\ run_groups # <<>>
  /\ LET g == Head(run_groups)
         team_codes == g.codes
         members_map == [c \in Range(team_codes) |-> EligibleTeamMembers(c)]
         empty == {i \in 1..Len(team_codes) : members_map[team_codes[i]] = {}}
     IN  IF empty # {}
         THEN LET code == team_codes[SetMin(empty)]
              IN  /\ pool' = [pool EXCEPT ![code].status = "removed"]
                  /\ events' = Append(events, LogEvent(code, "removed", FALSE))
                  /\ friends' = SetSeeking(friends, code, FALSE)
                  /\ UNCHANGED <<outbox, results>>
         ELSE LET host_code == HostOf(team_codes, members_map)
                  all_applications == AllApplications(team_codes, members_map)
              IN  /\ pool' = [c \in DOMAIN pool |->
                                IF c \in Range(team_codes)
                                THEN [pool[c] EXCEPT
                                        !.member_count = Cardinality(members_map[c]),
                                        !.status = "matched",
                                        !.matched_team_code = host_code,
                                        !.trigger = run_trigger]
                                ELSE pool[c]]
                  /\ friends' = MergedRows(friends, team_codes, host_code)
                  /\ events' = events
                       \o [i \in 1..Len(team_codes) |-> LogEvent(team_codes[i], "matched", FALSE)]
                       \o [i \in 1..Len(team_codes) |-> LogEvent(team_codes[i], "notified", FALSE)]
                  /\ outbox' = Append(outbox, all_applications)
                  /\ results' = Append(results,
                       [team_code |-> host_code,
                        member_ids |-> all_applications,
                        trigger |-> run_trigger,
                        codes |-> team_codes,
                        target |-> g.target,
                        counts |-> [i \in 1..Len(team_codes) |->
                                      Cardinality(members_map[team_codes[i]])]])
  /\ run_groups' = Tail(run_groups)
  /\ optin_gap' = "other"
  /\ UNCHANGED <<app_status, run_pc, run_allow3, run_trigger, passes, budgetVars,
                 since_begin, since_return, rerun, last_optin>>

\* matchmaking.py:465: the pass returns its results
RunReturn ==
  /\ run_pc = "merge"
  /\ run_groups = <<>>
  /\ run_pc' = "idle"
  /\ since_return' = IF since_begin THEN "clean" ELSE "disturbed"
  /\ optin_gap' = "other"
  /\ UNCHANGED <<tableVars, run_groups, run_allow3, run_trigger, results,
                 passes, budgetVars, since_begin, rerun, last_optin>>

\* matchmaking.py:418-465: another call of run_matching, made while the pass
\* the run variables follow is between two of its steps, from its snapshot
\* to its return. It reads the tables as they are now, so its groups pass
\* the re-validation of _merge_entries; with at most MaxUsers users it has at
\* most one group.
OtherPass(a3, tr) ==
  /\ run_pc = "merge"
  /\ passes < MaxPasses
  /\ LET order == PendingOrder
         counts == [c \in Range(order) |-> TeamMemberCount(c)]
         pruned == PrunedCodes(order, counts)
         kept == SelectSeq(order, LAMBDA c : c \notin Range(pruned))
         their_groups == RunGroups(kept, counts, a3)
         pool1 == [c \in DOMAIN pool |->
                     IF c \in Range(pruned)
                     THEN [pool[c] EXCEPT !.status = "removed"] ELSE pool[c]]
         events1 == events \o
                      [i \in 1..Len(pruned) |-> LogEvent(pruned[i], "removed", FALSE)]
         friends1 == [i \in 1..Len(friends) |->
                        IF friends[i].live /\ friends[i].code \in Range(pruned)
                        THEN [friends[i] EXCEPT !.seeking_merge = FALSE]
                        ELSE friends[i]]
     IN  /\ Len(their_groups) <= 1
         /\ IF their_groups = <<>>
            THEN /\ pool' = pool1
                 /\ events' = events1
                 /\ friends' = friends1
                 /\ UNCHANGED outbox
            ELSE LET team_codes == their_groups[1].codes
                     members_map == [c \in Range(team_codes) |-> EligibleTeamMembers(c)]
                     host_code == HostOf(team_codes, members_map)
                 IN  /\ pool' = [c \in DOMAIN pool |->
                                   IF c \in Range(team_codes)
                                   THEN [pool1[c] EXCEPT
                                           !.member_count = Cardinality(members_map[c]),
                                           !.status = "matched",
                                           !.matched_team_code = host_code,
                                           !.trigger = tr]
                                   ELSE pool1[c]]
                     /\ friends' = MergedRows(friends1, team_codes, host_code)
                     /\ events' = events1
                          \o [i \in 1..Len(team_codes) |->
                                LogEvent(team_codes[i], "matched", FALSE)]
                          \o [i \in 1..Len(team_codes) |->
                                LogEvent(team_codes[i], "notified", FALSE)]
                     /\ outbox' = Append(outbox,
                                         AllApplications(team_codes, members_map))
  /\ passes' = passes + 1
  /\ HistRoster
  /\ UNCHANGED <<app_status, run_pc, run_groups, run_allow3, run_trigger, results,
                 budgetVars>>

\* matchmaking.py:645-676 when Email.send raises (user/emails.py:28-34 shows
\* that it can): the exception leaves the transaction.atomic() block, which
\* rolls back the entries, the rows and the events written in it, and
\* run_matching, whose loop (460-464) catches nothing, raises with it.
\* run_groups keeps the groups the pass has not merged.
MergeGroupSendFails ==
  /\ run_pc = "merge"
  /\ run_groups # <<>>
  /\ LET team_codes == Head(run_groups).codes
         members_map == [c \in Range(team_codes) |-> EligibleTeamMembers(c)]
     IN  /\ \A c \in Range(team_codes) : members_map[c] # {}
         /\ AllApplications(team_codes, members_map) # {}
  /\ run_pc' = "raised"
  /\ optin_gap' = "other"
  /\ UNCHANGED <<tableVars, run_groups, run_allow3, run_trigger, results, passes,
                 budgetVars, since_begin, since_return, rerun, last_optin>>

(***************************************************************************)
(* process_opt_in_token for a token with a good signature that names user   *)
(* u and team code t (0 for '').                                            *)
(***************************************************************************)
\* matchmaking.py:143-148: the code the call works on
OptInCode(u, t) ==
  IF CurrentTeamCode(u) # 0 THEN CurrentTeamCode(u)
  ELSE IF t # 0 THEN t
  ELSE FreshCode

\* matchmaking.py:145-148: the row created for a user on no team
OptInRows(u, t) ==
  IF CurrentTeamCode(u) # 0 THEN friends
  ELSE Append(friends, NewRow(u, OptInCode(u, t)))

\* OptInResult that treats a Pending entry like no entry
OptInResult_NoPendingCheck(u, t) ==
  LET team_code == OptInCode(u, t)
      member_count == Cardinality(EligibleIn(OptInRows(u, t), team_code))
  IN  IF member_count = 0 THEN "not_eligible"
      ELSE IF member_count > TARGET_TEAM_SIZE - 1 THEN "too_large"
      ELSE IF team_code \in DOMAIN pool /\ pool[team_code].status = "matched"
           THEN "already_matched"
      ELSE "added"

\* OptInResult that treats a Matched entry like a Removed one
OptInResult_NoMatchedCheck(u, t) ==
  LET team_code == OptInCode(u, t)
      member_count == Cardinality(EligibleIn(OptInRows(u, t), team_code))
  IN  IF member_count = 0 THEN "not_eligible"
      ELSE IF member_count > TARGET_TEAM_SIZE - 1 THEN "too_large"
      ELSE IF team_code \in DOMAIN pool /\ pool[team_code].status = "pending"
           THEN "already_in_pool"
      ELSE "added"

\* matchmaking.py:150-184: the branch the call takes
OptInResult(u, t) ==
  LET team_code == OptInCode(u, t)
      member_count == Cardinality(EligibleIn(OptInRows(u, t), team_code))
  IN  IF member_count = 0 THEN "not_eligible"
      ELSE IF member_count > TARGET_TEAM_SIZE - 1 THEN "too_large"
      ELSE IF team_code \in DOMAIN pool /\ pool[team_code].status = "matched"
           THEN "already_matched"
      ELSE IF team_code \in DOMAIN pool /\ pool[team_code].status = "pending"
           THEN "already_in_pool"
      ELSE "added"

\* matchmaking.py:192-202: the entry a first opt-in creates
NewEntry(count, at) ==
  [member_count |-> count, status |-> "pending", matched_team_code |-> 0,
   trigger |-> "auto", created_at |-> at]

\* Upsert that leaves a stored entry as it is
Upsert_KeepStored(team_code, member_count) ==
  [c \in DOMAIN pool \cup {team_code} |->
     IF c \in DOMAIN pool THEN pool[c]
     ELSE NewEntry(member_count,
                   SetMax({pool[d].created_at : d \in DOMAIN pool}) + 1)]

\* matchmaking.py:192-202: update_or_create keeps created_at of a stored entry
Upsert(team_code, member_count) ==
  [c \in DOMAIN pool \cup {team_code} |->
     IF c # team_code THEN pool[c]
     ELSE IF c \in DOMAIN pool
          THEN [pool[c] EXCEPT !.member_count = member_count,
                               !.status = "pending",
                               !.matched_team_code = 0,
                               !.trigger = "auto"]
          ELSE NewEntry(member_count,
                        SetMax({pool[d].created_at : d \in DOMAIN pool}) + 1)]

\* matchmaking.py:130-214; watch says whether the history follows this call
OptIn(u, t, watch) ==
  /\ optins < MaxOptIns
  /\ LET team_code == OptInCode(u, t)
         rows == OptInRows(u, t)
         member_count == Cardinality(EligibleIn(rows, team_code))
         result == OptInResult(u, t)
     IN  /\ CASE result = "added" ->
                   /\ friends' = SetSeeking(rows, team_code, TRUE)
                   /\ pool' = Upsert(team_code, member_count)
                   /\ events' = Append(events, LogEvent(team_code, "opt_in", FALSE))
              [] result = "already_in_pool" ->
                   /\ friends' = rows
                   /\ events' = Append(events, LogEvent(team_code, "opt_in", TRUE))
                   /\ UNCHANGED pool
              [] OTHER ->
                   /\ friends' = rows
                   /\ UNCHANGED <<pool, events>>
         /\ IF watch
            THEN /\ last_optin' =
                      [user |-> u, team_code |-> t, result |-> result,
                       seq |-> optins + 1,
                       after |-> IF /\ last_optin.user = u
                                    /\ last_optin.team_code = t
                                    /\ last_optin.result \in {"added", "already_in_pool"}
                                 THEN optin_gap ELSE "other"]
                 /\ optin_gap' = "none"
            ELSE /\ last_optin.user # u \/ last_optin.team_code # t
                 /\ optin_gap' = IF rows # friends THEN "other" ELSE optin_gap
                 /\ UNCHANGED last_optin
  /\ optins' = optins + 1
  /\ since_begin' = FALSE
  /\ since_return' = "none"
  /\ UNCHANGED <<app_status, outbox, drift, runVars, rerun>>

(***************************************************************************)
(* Concurrent calls of process_opt_in_token, statement by statement. Each   *)
(* call runs in its own transaction (matchmaking.py:142): what it has       *)
(* written is seen by the other calls when it commits, and a statement that *)
(* writes rows another open transaction has written waits for its commit.   *)
(*   calls  for each call its position and its locals:                      *)
(*          pc          "idle", "check" (before line 164), "write" (before  *)
(*                      line 187), "locked" (before line 192), "done"       *)
(*          user        the user the token names                            *)
(*          team_code, member_count  the locals of lines 144-152            *)
(*          created     the call has created a row at line 146 or 149,      *)
(*                      which the other calls see after the commit          *)
(*          result      the answer, "" while the call runs                  *)
(***************************************************************************)
VARIABLE calls

CallIds == 1..MaxCalls

NoCall ==
  [pc |-> "idle", user |-> 0, team_code |-> 0, member_count |-> 0,
   created |-> FALSE, result |-> ""]

CallsIdle == [k \in CallIds |-> NoCall]

\* get_random_string (models.py:14-17) for a call: a code no table and no
\* running call holds
CallFreshCode ==
  SetMax(KnownCodes \cup {calls[k].team_code : k \in CallIds}) + 1

\* matchmaking.py:143-149 in a running call
CallCode(u, t) ==
  IF CurrentTeamCode(u) # 0 THEN CurrentTeamCode(u)
  ELSE IF t # 0 THEN t
  ELSE CallFreshCode

\* the committed rows and the row call k has created, as call k reads them
CallRows(k) ==
  IF calls[k].created
  THEN Append(friends, NewRow(calls[k].user, calls[k].team_code))
  ELSE friends

\* the call ends with answer r; its transaction commits
CallDone(k, r) == [calls EXCEPT ![k].pc = "done", ![k].result = r]

\* matchmaking.py:136-162: the team code, the row of a user on no team, the
\* eligible members and the two rejections on their number
CallBegin(k, u, t) ==
  /\ calls[k].pc = "idle"
  /\ app_status[u] # "none"
  /\ LET team_code == CallCode(u, t)
         created == CurrentTeamCode(u) = 0
         rows == IF created THEN Append(friends, NewRow(u, team_code)) ELSE friends
         member_count == Cardinality(EligibleIn(rows, team_code))
         call == [pc |-> "check", user |-> u,
                  team_code |-> team_code, member_count |-> member_count,
                  created |-> created, result |-> ""]
     IN  IF member_count = 0 \/ member_count > TARGET_TEAM_SIZE - 1
         THEN /\ friends' = rows
              /\ calls' = [calls EXCEPT ![k] =
                   [call EXCEPT !.pc = "done",
                                !.result = IF member_count = 0 THEN "not_eligible"
                                           ELSE "too_large"]]
         ELSE /\ calls' = [calls EXCEPT ![k] = call]
              /\ UNCHANGED friends
  /\ UNCHANGED <<app_status, pool, events, outbox>>

\* matchmaking.py:164-184: the entry as stored now, without a lock
CallCheck(k) ==
  /\ calls[k].pc = "check"
  /\ LET team_code == calls[k].team_code
         status == IF team_code \in DOMAIN pool THEN pool[team_code].status
                   ELSE "none"
     IN  CASE status = "matched" ->
                /\ friends' = CallRows(k)
                /\ calls' = CallDone(k, "already_matched")
                /\ UNCHANGED events
           [] status = "pending" ->
                /\ friends' = CallRows(k)
                /\ events' = Append(events, LogEvent(team_code, "opt_in", TRUE))
                /\ calls' = CallDone(k, "already_in_pool")
           [] OTHER ->
                /\ calls' = [calls EXCEPT ![k].pc = "write"]
                /\ UNCHANGED <<friends, events>>
  /\ UNCHANGED <<app_status, pool, outbox>>

\* matchmaking.py:186-190: the update of the rows of the team, which waits
\* while another call that has written them has not committed
CallLock(k) ==
  /\ calls[k].pc = "write"
  /\ \A j \in CallIds \ {k} :
       ~(calls[j].pc = "locked" /\ calls[j].team_code = calls[k].team_code)
  /\ friends' = SetSeeking(friends, calls[k].team_code, TRUE)
  /\ calls' = [calls EXCEPT ![k].pc = "locked"]
  /\ UNCHANGED <<app_status, pool, events, outbox>>

\* matchmaking.py:192-214: update_or_create, the event and the commit
CallCommit(k) ==
  /\ calls[k].pc = "locked"
  /\ LET team_code == calls[k].team_code
     IN  /\ friends' = SetSeeking(CallRows(k), team_code, friends = friends)
         /\ pool' = Upsert(team_code, calls[k].member_count)
         /\ events' = Append(events, LogEvent(team_code, "opt_in", FALSE))
  /\ calls' = CallDone(k, "added")
  /\ UNCHANGED <<app_status, outbox>>

(***************************************************************************)
(* Roster and status changes.                                               *)
(***************************************************************************)
\* views.py:75-81 create, with no code: a new team of one
Create(u) ==
  /\ drift < MaxDrift
  /\ app_status[u] # "none"
  /\ friends' = Append(friends, NewRow(u, FreshCode))
  /\ drift' = drift + 1
  /\ HistRoster
  /\ UNCHANGED <<app_status, pool, events, outbox, runVars, optins>>

\* views.py:83-95 join, then create(code=code)
Join(u, c) ==
  /\ drift < MaxDrift
  /\ app_status[u] # "none"
  /\ RowsOf(c) # {}
  /\ ~ReachedMaxCapacity(c)
  /\ ~IsClosed(c)
  /\ friends' = Append(friends, NewRow(u, c))
  /\ drift' = drift + 1
  /\ HistRoster
  /\ UNCHANGED <<app_status, pool, events, outbox, runVars, optins>>

\* views.py:100-106 leave: get(user=...) finds exactly one row and deletes it
Leave(u) ==
  /\ drift < MaxDrift
  /\ app_status[u] # "none"
  /\ Cardinality({i \in LiveRows : friends[i].user = u}) = 1
  /\ LET i == CHOOSE j \in LiveRows : friends[j].user = u
     IN  friends' = [friends EXCEPT ![i].live = FALSE]
  /\ drift' = drift + 1
  /\ HistRoster
  /\ UNCHANGED <<app_status, pool, events, outbox, runVars, optins>>

\* the application workflow moves the application of u to status st
SetStatus(u, st) ==
  /\ drift < MaxDrift
  /\ st # app_status[u]
  /\ app_status' = [app_status EXCEPT ![u] = st]
  /\ drift' = drift + 1
  /\ HistStatus
  /\ UNCHANGED <<friends, pool, events, outbox, runVars, optins>>

(***************************************************************************)
(* Initial tables: users 1..n in consecutive teams of 1 to 3, the other     *)
(* users on no team, every application pending; some of the teams have      *)
(* opted in, in the order of their codes.                                   *)
(***************************************************************************)
\* the sequences of team sizes 1..3 with total at most n
RECURSIVE Rosters(_)
Rosters(n) ==
  {<<>>} \cup
  UNION {{<<k>> \o r : r \in Rosters(n - k)} : k \in 1..(IF n < 3 THEN n ELSE 3)}

\* the code of user u's team under the team sizes z, 0 when on no team
RECURSIVE TeamIndex(_, _, _)
TeamIndex(z, u, t) ==
  IF z = <<>> THEN 0
  ELSE IF u <= Head(z) THEN t
  ELSE TeamIndex(Tail(z), u - Head(z), t + 1)

InitFriends(z, opted) ==
  [u \in 1..SumSeq(z) |->
     [NewRow(u, TeamIndex(z, u, 1)) EXCEPT
        !.seeking_merge = (TeamIndex(z, u, 1) \in opted)]]

TablesInit ==
  \E z \in Rosters(MaxUsers) :
    \E opted \in SUBSET (1..Len(z)) :
      /\ friends = InitFriends(z, opted)
      /\ app_status = [u \in Users |-> "pending"]
      /\ pool = [c \in opted |-> NewEntry(z[c], c)]
      /\ events = [i \in 1..Cardinality(opted) |->
                     LogEvent(SortByCreated(opted)[i], "opt_in", FALSE)]
      /\ outbox = <<>>

RunIdle ==
  /\ run_pc = "idle"
  /\ run_groups = <<>>
  /\ run_allow3 = FALSE
  /\ run_trigger = "auto"
  /\ results = <<>>
  /\ passes = 0

TablesIdle ==
  /\ friends = <<>>
  /\ app_status = [u \in Users |-> "none"]
  /\ pool = <<>>
  /\ events = <<>>
  /\ outbox = <<>>
  /\ drift = 0
  /\ optins = 0

\* the parameter pairs the passes are run with
PassParams == {<<FALSE, "auto">>, <<TRUE, "deadline">>}

RosterStep ==
  \/ \E u \in Users : Create(u)
  \/ \E u \in Users : \E c \in KnownCodes : Join(u, c)
  \/ \E u \in Users : Leave(u)
  \/ \E u \in Users : \E st \in AppStatuses : SetStatus(u, st)

(***************************************************************************)
(* Track preferences and the Track Allocator (services.py).                 *)
(*   track_capacity  the capacity table: for each track a number of teams   *)
(*                   or NoCap. At this revision models.py:81-83 returns the *)
(*                   bare number 63, which dict() at services.py:39 and     *)
(*                   .get() at forms.py:64 cannot consume; the table the    *)
(*                   services, the form and tests.py:358-366                *)
(*                   (FriendsCode.TRACK_CAPACITY) work on is not in the     *)
(*                   source, so CapacityTables follows the specification    *)
(*   clock           the last value timezone.now() gave to a submission     *)
(*   submits, admins the preference posts made, the administrator steps     *)
(*                   still allowed                                          *)
(*   alloc_pc, candidates, alloc_idx, alloc_counts, assignments, skipped    *)
(*                   the position and the locals of TrackAssignmentService  *)
(*                   .run                                                   *)
(*   dry_run         the parameter dry_run of the run                       *)
(*   track_mails     the team codes send_track_assigned_email was called    *)
(*                   for, oldest first                                      *)
(*   alloc_counts0   history: track_counts() as the pass read it            *)
(*   alloc_clean     history: no other step since the pass began            *)
(***************************************************************************)
VARIABLES track_capacity, clock, submits, admins, alloc_runs, rebal_runs,
          alloc_pc, candidates, alloc_idx, alloc_counts, assignments, skipped,
          dry_run, track_mails, alloc_counts0, alloc_clean

allocVars ==
  <<alloc_pc, candidates, alloc_idx, alloc_counts, assignments, skipped,
    dry_run, track_mails, alloc_counts0, alloc_clean>>

\* models.py:27-40: four of the six TRACKS
Tracks == {"fintech", "social_good", "smart_cities", "open_innovation"}

\* the capacity tables of the deployments modelled
CapacityTables ==
  { [t \in Tracks |-> 1],
    [t \in Tracks |-> IF t = "fintech" THEN NoCap
                      ELSE IF t = "open_innovation" THEN 0 ELSE 1] }

TrackUsers == 1..(FRIENDS_MAX_CAPACITY * MaxTeams)

\* the users the administrators' steps are tried on: the first two of each
\* team
SampledUsers == {u \in TrackUsers : u % FRIENDS_MAX_CAPACITY \in {1, 2}}

\* the preference triples the users post
PrefOptions ==
  { <<"smart_cities", "fintech", "social_good">>,
    <<"smart_cities", "open_innovation", "fintech">>,
    <<"fintech", "smart_cities", "social_good">>,
    <<"fintech", "social_good", "">> }

\* the capacity tables of the deployments where fewer than three tracks are
\* open
FewOpenTables ==
  { [t \in Tracks |-> IF t = "fintech" THEN NoCap
                      ELSE IF t = "social_good" THEN 1 ELSE 0],
    [t \in Tracks |-> IF t = "fintech" THEN 1 ELSE 0] }

\* the preference triples the users post there
FewPrefOptions ==
  { <<"fintech", "", "">>,
    <<"fintech", "social_good", "">>,
    <<"social_good", "fintech", "">> }

\* models.py:85-91 track_counts on the rows fr: distinct codes per track
TrackCountsIn(fr) ==
  [t \in Tracks |->
     Cardinality({fr[i].code : i \in {j \in 1..Len(fr) :
                                        fr[j].live /\ fr[j].track_assigned = t}})]

TrackCounts == TrackCountsIn(friends)

\* models.py:93-108 can_select_track for a row of code c
CanSelectTrack(c) ==
  LET statuses == {u \in MembersOf(c) : app_status[u] # "none"}
  IN  /\ FRIENDS_MAX_CAPACITY # 0
      /\ Cardinality(RowsOf(c)) >= FRIENDS_MAX_CAPACITY
      /\ Cardinality(statuses) = Cardinality(RowsOf(c))
      /\ \A u \in statuses : app_status[u] = "confirmed"

\* forms.py:62-66 full_track_codes, 87 open_track_codes
OpenTracks(counts, caps) ==
  {t \in Tracks : caps[t] = NoCap \/ counts[t] < caps[t]}

\* forms.py:93 required_choices
RequiredChoices(counts, caps) ==
  IF Cardinality(OpenTracks(counts, caps)) < 3
  THEN Cardinality(OpenTracks(counts, caps)) ELSE 3

\* forms.py:62-142 for a form bound to the posted triple p with no initial:
\* the cleaned triple, or <<>> when the form is not valid
FormClean(p, counts, caps) ==
  LET open == OpenTracks(counts, caps)
      required == RequiredChoices(counts, caps)
      selected == SelectSeq(p, LAMBDA x : x # "")
  IN  IF open = {} THEN <<"", "", "">>
      ELSE IF \E i \in 1..required : p[i] = "" THEN <<>>
      ELSE IF Cardinality(Range(selected)) # Len(selected) THEN <<>>
      ELSE IF \E i \in 1..3 : p[i] # "" /\ p[i] \notin open THEN <<>>
      ELSE p

(***************************************************************************)
(* TrackPreferenceForm as a function of its arguments (SpecForm).           *)
(*   form  the form under validation: the posted triple (data), the initial *)
(*         triple, the track counts it was built with, and, once is_valid() *)
(*         has run (pc = "done"), the cleaned triple or <<>> when the form  *)
(*         is not valid. The capacities are track_capacity.                 *)
(***************************************************************************)
VARIABLE form

FormIdle ==
  [pc |-> "idle", data |-> <<"", "", "">>, initial |-> <<"", "", "">>,
   counts |-> [t \in Tracks |-> 0], cleaned |-> <<>>]

\* FormCleanInitial that does not look the selected tracks up in
\* _allowed_codes
FormCleanInitial_NoAvailabilityCheck(p, initial, counts, caps) ==
  LET open == OpenTracks(counts, caps)
      required == RequiredChoices(counts, caps)
      value == IF open = {} THEN initial ELSE p
      selected == SelectSeq(value, LAMBDA x : x # "")
  IN  IF open # {} /\ \E i \in 1..required : p[i] = "" THEN <<>>
      ELSE IF Len(selected) < required THEN <<>>
      ELSE IF Cardinality(Range(selected)) # Len(selected) THEN <<>>
      ELSE value

\* forms.py:49-142 for a form bound to the posted triple p, built with the
\* triple initial: the cleaned triple, or <<>> when the form is not valid.
\* With no open track the fields are disabled (forms.py:111-113) and a
\* disabled field takes its value from initial, whatever is posted; otherwise
\* the first required_choices fields are required (103-107), the selection
\* must be without repetition (132-133) and inside _allowed_codes, the open
\* tracks and those of initial (89, 134-141).
FormCleanInitial(p, initial, counts, caps) ==
  LET open == OpenTracks(counts, caps)
      required == RequiredChoices(counts, caps)
      allowed == open \cup (Range(initial) \cap Tracks)
      value == IF open = {} THEN initial ELSE p
      selected == SelectSeq(value, LAMBDA x : x # "")
  IN  IF open # {} /\ \E i \in 1..required : p[i] = "" THEN <<>>
      ELSE IF Len(selected) < required THEN <<>>
      ELSE IF Cardinality(Range(selected)) # Len(selected) THEN <<>>
      ELSE IF \E i \in 1..3 : value[i] # "" /\ value[i] \notin allowed THEN <<>>
      ELSE value

\* the triples posted and the triples stored
FormData == (Tracks \cup {""}) \X (Tracks \cup {""}) \X (Tracks \cup {""})

FormInitials ==
  { <<"", "", "">>,
    <<"open_innovation", "", "">>,
    <<"smart_cities", "fintech", "social_good">> }

\* the counts the form is built with: nothing assigned, or one team on
\* every track
FormCounts == {[t \in Tracks |-> n] : n \in {0, 1}}

\* form.is_valid()
FormIsValid ==
  /\ form.pc = "bound"
  /\ form' = [form EXCEPT
                !.pc = "done",
                !.cleaned = FormCleanInitial(form.data, form.initial, form.counts,
                                             track_capacity)]

\* views.py:205-234 FriendsTrackSelectionView.post by user u at time ts
SubmitPrefs(u, p, ts) ==
  /\ submits < MaxSubmits
  /\ ts \in {clock, clock + 1} \ {0}
  /\ Cardinality({i \in LiveRows : friends[i].user = u}) = 1
  /\ LET mine == CHOOSE i \in LiveRows : friends[i].user = u
         cleaned == FormClean(p, TrackCounts, track_capacity)
     IN  /\ friends[mine].track_assigned = ""
         /\ CanSelectTrack(friends[mine].code)
         /\ cleaned # <<>>
         /\ friends' = [i \in 1..Len(friends) |->
                          IF friends[i].live /\ friends[i].code = friends[mine].code
                          THEN [friends[i] EXCEPT !.track_pref = cleaned,
                                                  !.track_pref_submitted_at = ts]
                          ELSE friends[i]]
  /\ clock' = ts
  /\ submits' = submits + 1
  /\ UNCHANGED <<app_status, track_capacity, admins>>

\* admin.py:213-240 assign_track_view: track t, or "" to clear, on team c
AdminAssignTrack(c, t) ==
  /\ admins > 0
  /\ RowsOf(c) # {}
  /\ friends' = [i \in 1..Len(friends) |->
                   IF friends[i].live /\ friends[i].code = c
                   THEN [friends[i] EXCEPT !.track_assigned = t]
                   ELSE friends[i]]
  /\ admins' = admins - 1
  /\ UNCHANGED <<app_status, track_capacity, clock, submits>>

\* admin.py:108-155 add_member_view for a user on no team
AdminAddMember(u, c) ==
  /\ drift < MaxDrift
  /\ RowsOf(c) # {}
  /\ Cardinality(RowsOf(c)) < FRIENDS_MAX_CAPACITY
  /\ CurrentTeamCode(u) = 0
  /\ friends' = Append(friends, NewRow(u, c))
  /\ drift' = drift + 1
  /\ UNCHANGED <<app_status, track_capacity, clock, submits, admins>>

\* admin.py:157-169 remove_member_view
AdminRemoveMember(i) ==
  /\ drift < MaxDrift
  /\ i \in LiveRows
  /\ friends' = [friends EXCEPT ![i].live = FALSE]
  /\ drift' = drift + 1
  /\ UNCHANGED <<app_status, track_capacity, clock, submits, admins>>

\* the application of u leaves the confirmed status
Unconfirm(u) ==
  /\ admins > 0
  /\ app_status[u] = "confirmed"
  /\ app_status' = [app_status EXCEPT ![u] = "rejected"]
  /\ admins' = admins - 1
  /\ UNCHANGED <<friends, track_capacity, clock, submits>>

\* services.py:78-98 _collect_team_members: the codes with a row that has no
\* track and a first preference, in the order of the codes
CollectCodes ==
  {friends[i].code : i \in {j \in LiveRows :
      friends[j].track_assigned = "" /\ friends[j].track_pref[1] # ""}}

\* services.py:132-139 _fallback_timestamp; 0 stands for users' date_joined,
\* which is before every submission
FallbackTimestamp(c) ==
  LET timestamps == {friends[i].track_pref_submitted_at : i \in RowsOf(c)} \ {0}
  IN  IF timestamps = {} THEN 0 ELSE SetMin(timestamps)

\* services.py:104-121: the candidate of code c, read from its first row
Candidate(c) ==
  LET representative == friends[SetMin(RowsOf(c))]
  IN  [code |-> c,
       preferences |-> representative.track_pref,
       submitted_at |-> IF representative.track_pref_submitted_at # 0
                        THEN representative.track_pref_submitted_at
                        ELSE FallbackTimestamp(c),
       min_pk |-> SetMin(RowsOf(c))]

\* how many different tracks the triple p names
DistinctPrefs(p) == Cardinality(Range(p) \ {""})

\* SkipReason that asks for as many preferences as the form requires
SkipReason_RequiredCount(c) ==
  IF DistinctPrefs(friends[SetMin(RowsOf(c))].track_pref)
       < RequiredChoices(TrackCounts, track_capacity)
  THEN "missing_preferences"
  ELSE IF ~CanSelectTrack(c) THEN "not_eligible"
  ELSE ""

\* services.py:111-116: the reason code c is skipped for, "" if it is not
SkipReason(c) ==
  IF friends[SetMin(RowsOf(c))].track_pref[1] = "" THEN "missing_preferences"
  ELSE IF ~CanSelectTrack(c) THEN "not_eligible"
  ELSE ""

\* the candidate x comes before y under the key of services.py:129
KeyBefore(x, y) ==
  \/ x.submitted_at < y.submitted_at
  \/ x.submitted_at = y.submitted_at /\ x.min_pk < y.min_pk

\* SortCandidates by the lowest member id only
RECURSIVE SortCandidates_ByMinPk(_)
SortCandidates_ByMinPk(S) ==
  IF S = {} THEN <<>>
  ELSE LET x == CHOOSE a \in S : \A b \in S : a.min_pk <= b.min_pk
       IN  <<x>> \o SortCandidates_ByMinPk(S \ {x})

\* services.py:129 candidates.sort by (submitted_at, min pk)
RECURSIVE SortCandidates(_)
SortCandidates(S) ==
  IF S = {} THEN <<>>
  ELSE LET x == CHOOSE a \in S : \A b \in S \ {a} : KeyBefore(a, b)
       IN  <<x>> \o SortCandidates(S \ {x})

\* PickTrack that takes the first preference whatever its count
PickTrack_NoCapacityCheck(preferences, counts, caps) ==
  LET ok == {i \in 1..3 : preferences[i] # ""}
  IN  IF ok = {} THEN 0 ELSE SetMin(ok)

\* PickTrack that gives up when a preference is blank
PickTrack_BlankEnds(preferences, counts, caps) ==
  LET ok == {i \in 1..3 :
               /\ preferences[i] # ""
               /\ \/ caps[preferences[i]] = NoCap
                  \/ counts[preferences[i]] < caps[preferences[i]]}
  IN  IF \E i \in 1..3 : preferences[i] = "" THEN 0
      ELSE IF ok = {} THEN 0 ELSE SetMin(ok)

\* services.py:141-150 _pick_track: the rank of the first preference with
\* room, 0 when there is none
PickTrack(preferences, counts, caps) ==
  LET ok == {i \in 1..3 :
               /\ preferences[i] # ""
               /\ \/ caps[preferences[i]] = NoCap
                  \/ counts[preferences[i]] < caps[preferences[i]]}
  IN  IF ok = {} THEN 0 ELSE SetMin(ok)

\* Persists for a run that ignores dry_run
Persists_Always(dry) == TRUE

\* services.py:61-62: a dry run goes on to the next candidate before the
\* update of the rows and the notification
Persists(dry) == ~dry

\* services.py:30-40: the pass collects, builds its candidates and reads the
\* capacities and the counts; dry is the parameter dry_run
AllocBeginWith(dry) ==
  /\ alloc_pc = "idle"
  /\ alloc_runs < MaxAllocRuns
  /\ alloc_runs' = alloc_runs + 1
  /\ LET codes == CollectCodes
         cands == {Candidate(c) : c \in {d \in codes : SkipReason(d) = ""}}
         skips == SortByCode({d \in codes : SkipReason(d) # ""})
     IN  /\ candidates' = SortCandidates(cands)
         /\ skipped' = [i \in 1..Len(skips) |->
                          [team_code |-> skips[i], reason |-> SkipReason(skips[i])]]
  /\ alloc_pc' = "loop"
  /\ alloc_idx' = 1
  /\ alloc_counts' = TrackCounts
  /\ alloc_counts0' = TrackCounts
  /\ assignments' = <<>>
  /\ alloc_clean' = TRUE
  /\ dry_run' = dry
  /\ track_mails' = <<>>
  /\ UNCHANGED <<friends, app_status, track_capacity, clock, submits, admins>>

\* run() with the default dry_run=False
AllocBegin == AllocBeginWith(FALSE)

\* run(dry_run=True)
AllocBeginDry == AllocBeginWith(TRUE)

\* services.py:43-74: one candidate of the loop
AllocStep ==
  /\ alloc_pc = "loop"
  /\ alloc_idx <= Len(candidates)
  /\ LET candidate == candidates[alloc_idx]
         preference_used == PickTrack(candidate.preferences, alloc_counts,
                                      track_capacity)
     IN  IF preference_used = 0
         THEN /\ skipped' = Append(skipped,
                              [team_code |-> candidate.code, reason |-> "no_capacity"])
              /\ UNCHANGED <<friends, alloc_counts, assignments, track_mails>>
         ELSE LET track_choice == candidate.preferences[preference_used]
              IN  /\ alloc_counts' =
                       [alloc_counts EXCEPT ![track_choice] = @ + 1]
                  /\ assignments' = Append(assignments,
                       [team_code |-> candidate.code,
                        track_code |-> track_choice,
                        preference_used |-> preference_used])
                  /\ IF Persists(dry_run)
                     THEN /\ friends' = [i \in 1..Len(friends) |->
                               IF friends[i].live /\ friends[i].code = candidate.code
                               THEN [friends[i] EXCEPT !.track_assigned = track_choice]
                               ELSE friends[i]]
                          /\ track_mails' = Append(track_mails, candidate.code)
                     ELSE UNCHANGED <<friends, track_mails>>
                  /\ UNCHANGED skipped
  /\ alloc_idx' = alloc_idx + 1
  /\ UNCHANGED <<app_status, track_capacity, clock, submits, admins,
                 alloc_pc, candidates, dry_run, alloc_counts0, alloc_clean>>

\* services.py:34, 38, 76: the pass returns
AllocReturn ==
  /\ alloc_pc = "loop"
  /\ alloc_idx > Len(candidates)
  /\ alloc_pc' = "idle"
  /\ UNCHANGED <<friends, app_status, track_capacity, clock, submits, admins,
                 candidates, alloc_idx, alloc_counts, assignments, skipped,
                 dry_run, track_mails, alloc_counts0, alloc_clean>>

\* services.py:43-74 when send_track_assigned_email raises (emails.py:18,
\* user/emails.py:28-34): the update of the rows (65-69) is committed before
\* the send (71-73), and run(), whose loop catches nothing, raises
AllocStepSendFails ==
  /\ alloc_pc = "loop"
  /\ alloc_idx <= Len(candidates)
  /\ LET candidate == candidates[alloc_idx]
         preference_used == PickTrack(candidate.preferences, alloc_counts,
                                      track_capacity)
     IN  /\ Persists(dry_run)
         /\ preference_used # 0
         /\ MembersOf(candidate.code) # {}
         /\ LET track_choice == candidate.preferences[preference_used]
            IN  /\ alloc_counts' =
                     [alloc_counts EXCEPT ![track_choice] = @ + 1]
                /\ assignments' = Append(assignments,
                     [team_code |-> candidate.code,
                      track_code |-> track_choice,
                      preference_used |-> preference_used])
                /\ friends' = [i \in 1..Len(friends) |->
                     IF friends[i].live /\ friends[i].code = candidate.code
                     THEN [friends[i] EXCEPT !.track_assigned = track_choice]
                     ELSE friends[i]]
  /\ alloc_idx' = alloc_idx + 1
  /\ alloc_pc' = "raised"
  /\ UNCHANGED <<app_status, track_capacity, clock, submits, admins, skipped,
                 candidates, dry_run, track_mails, alloc_counts0, alloc_clean>>

(***************************************************************************)
(* The Track Rebalancer (services.py:156-258).                              *)
(*   rebal_pc, rebal_tracks, rebal_track, rebal_queue, rebal_counts,        *)
(*   reassignments, rebal_skipped                                           *)
(*                   the position and the locals of TrackReassignmentService*)
(*                   .run: the tracks still to process, the track being     *)
(*                   processed, its overflow codes still to move            *)
(*   rebal_overflow  history: the overflow computed for each track          *)
(***************************************************************************)
VARIABLES rebal_pc, rebal_tracks, rebal_track, rebal_queue, rebal_counts,
          reassignments, rebal_skipped, rebal_overflow

rebalVars ==
  <<rebal_pc, rebal_tracks, rebal_track, rebal_queue, rebal_counts,
    reassignments, rebal_skipped, rebal_overflow>>

trackVars ==
  <<track_capacity, clock, submits, admins, alloc_runs, rebal_runs,
    allocVars, rebalVars, form, calls>>

\* services.py:157-160
BANORTE_TRACKS == {"smart_cities", "open_innovation"}

\* services.py:173 sorted(self.BANORTE_TRACKS)
SortedBanorte == <<"open_innovation", "smart_cities">>

\* the sequences of n different elements of S
RECURSIVE Samples(_, _)
Samples(S, n) ==
  IF n = 0 THEN {<<>>}
  ELSE UNION {{<<x>> \o q : q \in Samples(S \ {x}, n - 1)} : x \in S}

\* SelectOverflowCodes that samples one code more than the overflow
SelectOverflowCodes_OneMore(assigned_codes, overflow) ==
  IF overflow <= 0 THEN {<<>>}
  ELSE IF overflow + 1 >= Cardinality(assigned_codes)
       THEN Samples(assigned_codes, Cardinality(assigned_codes))
  ELSE Samples(assigned_codes, overflow + 1)

\* services.py:235-240 _select_overflow_codes: the lists rng.sample can give
SelectOverflowCodes(assigned_codes, overflow) ==
  IF overflow <= 0 THEN {<<>>}
  ELSE IF overflow >= Cardinality(assigned_codes)
       THEN Samples(assigned_codes, Cardinality(assigned_codes))
  ELSE Samples(assigned_codes, overflow)

\* AlternativeTracks that also takes the preferences in BANORTE_TRACKS
AlternativeTracks_AnyTrack(representative, counts, caps) ==
  LET preference_options ==
        {idx \in {2, 3} : representative.track_pref[idx] # ""}
  IN  {idx \in preference_options :
         \/ caps[representative.track_pref[idx]] = NoCap
         \/ counts[representative.track_pref[idx]] <
              caps[representative.track_pref[idx]]}

\* services.py:242-255 _choose_alternative_track: the ranks the shuffle can
\* put first among those with room
AlternativeTracks(representative, counts, caps) ==
  LET preference_options ==
        {idx \in {2, 3} : /\ representative.track_pref[idx] # ""
                          /\ representative.track_pref[idx] \notin BANORTE_TRACKS}
  IN  {idx \in preference_options :
         \/ caps[representative.track_pref[idx]] = NoCap
         \/ counts[representative.track_pref[idx]] <
              caps[representative.track_pref[idx]]}

\* services.py:167-171
RebalBegin ==
  /\ rebal_pc = "idle"
  /\ rebal_runs < MaxRebalRuns
  /\ rebal_runs' = rebal_runs + 1
  /\ rebal_pc' = "loop"
  /\ rebal_tracks' = SortedBanorte
  /\ rebal_track' = ""
  /\ rebal_queue' = <<>>
  /\ rebal_counts' = TrackCounts
  /\ reassignments' = <<>>
  /\ rebal_skipped' = <<>>
  /\ rebal_overflow' = [t \in BANORTE_TRACKS |-> 0]
  /\ UNCHANGED <<friends, app_status>>

\* services.py:173-186: the next track, its overflow and the codes to move
RebalTrack ==
  /\ rebal_pc = "loop"
  /\ rebal_queue = <<>>
  /\ rebal_tracks # <<>>
  /\ LET track_code == Head(rebal_tracks)
         capacity == track_capacity[track_code]
         assigned_codes == {friends[i].code : i \in {j \in LiveRows :
                               friends[j].track_assigned = track_code}}
         overflow == IF capacity = NoCap \/ Cardinality(assigned_codes) <= capacity
                     THEN 0 ELSE Cardinality(assigned_codes) - capacity
     IN  /\ rebal_queue' \in SelectOverflowCodes(assigned_codes, overflow)
         /\ rebal_overflow' = [rebal_overflow EXCEPT ![track_code] = overflow]
         /\ rebal_track' = track_code
  /\ rebal_tracks' = Tail(rebal_tracks)
  /\ UNCHANGED <<friends, app_status, rebal_pc, rebal_counts, reassignments,
                 rebal_skipped, rebal_runs>>

\* services.py:187-231: one of the overflow codes
RebalStep ==
  /\ rebal_pc = "loop"
  /\ rebal_queue # <<>>
  /\ LET team_code == Head(rebal_queue)
     IN  IF RowsOf(team_code) = {}
         THEN UNCHANGED <<friends, rebal_counts, reassignments, rebal_skipped>>
         ELSE LET representative == friends[SetMin(RowsOf(team_code))]
                  ranks == AlternativeTracks(representative, rebal_counts,
                                             track_capacity)
              IN  IF ranks = {}
                  THEN /\ rebal_skipped' = Append(rebal_skipped,
                            [team_code |-> team_code, reason |-> "no_alternative"])
                       /\ UNCHANGED <<friends, rebal_counts, reassignments>>
                  ELSE \E preference_used \in ranks :
                         LET new_track == representative.track_pref[preference_used]
                         IN  /\ rebal_counts' =
                                  [rebal_counts EXCEPT
                                     ![rebal_track] = IF @ > 0 THEN @ - 1 ELSE 0,
                                     ![new_track] = @ + 1]
                             /\ reassignments' = Append(reassignments,
                                  [team_code |-> team_code,
                                   old_track |-> rebal_track,
                                   new_track |-> new_track,
                                   preference_used |-> preference_used])
                             /\ friends' = [i \in 1..Len(friends) |->
                                  IF friends[i].live /\ friends[i].code = team_code
                                  THEN [friends[i] EXCEPT !.track_assigned = new_track]
                                  ELSE friends[i]]
                             /\ UNCHANGED rebal_skipped
  /\ rebal_queue' = Tail(rebal_queue)
  /\ UNCHANGED <<app_status, rebal_pc, rebal_tracks, rebal_track,
                 rebal_overflow, rebal_runs>>

\* services.py:233: the pass returns
RebalReturn ==
  /\ rebal_pc = "loop"
  /\ rebal_queue = <<>>
  /\ rebal_tracks = <<>>
  /\ rebal_pc' = "idle"
  /\ UNCHANGED <<friends, app_status, rebal_tracks, rebal_track, rebal_queue,
                 rebal_counts, reassignments, rebal_skipped, rebal_overflow,
                 rebal_runs>>

(***************************************************************************)
(* Initial tables of the track specifications: MaxTeams teams of            *)
(* FRIENDS_MAX_CAPACITY confirmed users, the last team possibly a member    *)
(* short, no preference posted and no track assigned.                       *)
(***************************************************************************)
TeamOf(u) == ((u - 1) \div FRIENDS_MAX_CAPACITY) + 1

TrackRows(short) ==
  LET all == [u \in TrackUsers |-> NewRow(u, TeamOf(u))]
  IN  SelectSeq(all, LAMBDA r : r.user # short * FRIENDS_MAX_CAPACITY)

AllocIdle ==
  /\ alloc_pc = "idle"
  /\ candidates = <<>>
  /\ alloc_idx = 1
  /\ alloc_counts = [t \in Tracks |-> 0]
  /\ assignments = <<>>
  /\ skipped = <<>>
  /\ dry_run = FALSE
  /\ track_mails = <<>>
  /\ alloc_counts0 = [t \in Tracks |-> 0]
  /\ alloc_clean = FALSE
  /\ alloc_runs = 0

RebalIdle ==
  /\ rebal_pc = "idle"
  /\ rebal_tracks = <<>>
  /\ rebal_track = ""
  /\ rebal_queue = <<>>
  /\ rebal_counts = [t \in Tracks |-> 0]
  /\ reassignments = <<>>
  /\ rebal_skipped = <<>>
  /\ rebal_overflow = [t \in BANORTE_TRACKS |-> 0]
  /\ rebal_runs = 0

TrackIdle ==
  /\ form = FormIdle
  /\ calls = CallsIdle
  /\ track_capacity = [t \in Tracks |-> NoCap]
  /\ clock = 0
  /\ submits = 0
  /\ admins = 0
  /\ AllocIdle
  /\ RebalIdle

TrackStart ==
  /\ form = FormIdle
  /\ calls = CallsIdle
  /\ \E short \in {0, MaxTeams} : friends = TrackRows(short)
  /\ app_status = [u \in TrackUsers |-> "confirmed"]
  /\ pool = <<>>
  /\ events = <<>>
  /\ outbox = <<>>
  /\ drift = 0
  /\ optins = 0
  /\ track_capacity \in CapacityTables
  /\ clock = 0
  /\ submits = 0
  /\ AllocIdle
  /\ RebalIdle
  /\ RunIdle
  /\ HistIdle
  /\ PackIdle

AllocInit ==
  /\ TrackStart
  /\ admins = MaxAdmin

RebalInit ==
  /\ TrackStart
  /\ admins = MaxRebalAdmin

\* what a step of the track specifications leaves alone
TrackFrame ==
  UNCHANGED <<packVars, pool, events, outbox, optins, runVars, histVars, form,
              calls>>

\* what a step of the users and the administrators leaves alone
EnvFrame ==
  /\ alloc_clean' = FALSE
  /\ UNCHANGED <<alloc_pc, candidates, alloc_idx, alloc_counts, assignments,
                 skipped, dry_run, track_mails, alloc_counts0, alloc_runs,
                 rebalVars, rebal_runs>>
  /\ TrackFrame

PassFrame == UNCHANGED <<track_capacity, clock, submits, admins, drift>>

AllocNext ==
  \/ AllocBegin /\ UNCHANGED <<rebalVars, rebal_runs, drift>> /\ TrackFrame
  \/ AllocStep /\ UNCHANGED <<rebalVars, rebal_runs, alloc_runs, drift>> /\ TrackFrame
  \/ AllocReturn /\ UNCHANGED <<rebalVars, rebal_runs, alloc_runs, drift>> /\ TrackFrame
  \/ \E u \in TrackUsers : \E p \in PrefOptions : \E ts \in {clock, clock + 1} :
       SubmitPrefs(u, p, ts) /\ UNCHANGED drift /\ EnvFrame
  \/ \E c \in KnownCodes : \E t \in BANORTE_TRACKS \cup {""} :
       AdminAssignTrack(c, t) /\ UNCHANGED drift /\ EnvFrame
  \/ \E u \in TrackUsers : \E c \in KnownCodes : AdminAddMember(u, c) /\ EnvFrame
  \/ \E i \in {j \in LiveRows : friends[j].user \in SampledUsers} :
       AdminRemoveMember(i) /\ EnvFrame
  \/ \E u \in SampledUsers : Unconfirm(u) /\ UNCHANGED drift /\ EnvFrame

RebalNext ==
  \/ RebalBegin /\ PassFrame /\ UNCHANGED <<allocVars, alloc_runs>> /\ TrackFrame
  \/ RebalTrack /\ PassFrame /\ UNCHANGED <<allocVars, alloc_runs>> /\ TrackFrame
  \/ RebalStep /\ PassFrame /\ UNCHANGED <<allocVars, alloc_runs>> /\ TrackFrame
  \/ RebalReturn /\ PassFrame /\ UNCHANGED <<allocVars, alloc_runs>> /\ TrackFrame
  \/ \E u \in TrackUsers : \E p \in PrefOptions : \E ts \in {clock, clock + 1} :
       SubmitPrefs(u, p, ts) /\ UNCHANGED drift /\ EnvFrame
  \/ \E c \in KnownCodes : \E t \in BANORTE_TRACKS \cup {""} :
       AdminAssignTrack(c, t) /\ UNCHANGED drift /\ EnvFrame
  \/ \E i \in {j \in LiveRows : friends[j].user \in SampledUsers} :
       AdminRemoveMember(i) /\ EnvFrame

\* SpecPrefs: the allocator where fewer than three tracks are open, with
\* preference posts, administrator assignments and applications that leave
\* the confirmed status
PrefsInit ==
  /\ form = FormIdle
  /\ calls = CallsIdle
  /\ friends = TrackRows(0)
  /\ app_status = [u \in TrackUsers |-> "confirmed"]
  /\ pool = <<>>
  /\ events = <<>>
  /\ outbox = <<>>
  /\ drift = 0
  /\ optins = 0
  /\ track_capacity \in FewOpenTables
  /\ clock = 0
  /\ submits = 0
  /\ admins = MaxPrefsAdmin
  /\ AllocIdle
  /\ RebalIdle
  /\ RunIdle
  /\ HistIdle
  /\ PackIdle

PrefsNext ==
  \/ AllocBegin /\ UNCHANGED <<rebalVars, rebal_runs, drift>> /\ TrackFrame
  \/ AllocStep /\ UNCHANGED <<rebalVars, rebal_runs, alloc_runs, drift>> /\ TrackFrame
  \/ AllocReturn /\ UNCHANGED <<rebalVars, rebal_runs, alloc_runs, drift>> /\ TrackFrame
  \/ \E u \in SampledUsers : \E p \in FewPrefOptions : \E ts \in {clock, clock + 1} :
       SubmitPrefs(u, p, ts) /\ UNCHANGED drift /\ EnvFrame
  \/ \E c \in KnownCodes : \E t \in Tracks \cup {""} :
       AdminAssignTrack(c, t) /\ UNCHANGED drift /\ EnvFrame
  \/ \E u \in SampledUsers : Unconfirm(u) /\ UNCHANGED drift /\ EnvFrame

\* SpecAllocFail: allocator passes in which a notification can fail
AllocFailInit ==
  /\ TrackStart
  /\ admins = 0

AllocFailNext ==
  \/ AllocBegin /\ UNCHANGED <<rebalVars, rebal_runs, drift>> /\ TrackFrame
  \/ AllocStep /\ UNCHANGED <<rebalVars, rebal_runs, alloc_runs, drift>> /\ TrackFrame
  \/ AllocStepSendFails
       /\ UNCHANGED <<rebalVars, rebal_runs, alloc_runs, drift>> /\ TrackFrame
  \/ AllocReturn /\ UNCHANGED <<rebalVars, rebal_runs, alloc_runs, drift>> /\ TrackFrame
  \/ \E u \in TrackUsers : \E p \in PrefOptions : \E ts \in {clock, clock + 1} :
       SubmitPrefs(u, p, ts) /\ UNCHANGED drift /\ EnvFrame

\* SpecDryRun: allocator passes run with dry_run=True, with preference posts
DryRunInit ==
  /\ TrackStart
  /\ admins = 0

DryRunNext ==
  \/ AllocBeginDry /\ UNCHANGED <<rebalVars, rebal_runs, drift>> /\ TrackFrame
  \/ AllocStep /\ UNCHANGED <<rebalVars, rebal_runs, alloc_runs, drift>> /\ TrackFrame
  \/ AllocReturn /\ UNCHANGED <<rebalVars, rebal_runs, alloc_runs, drift>> /\ TrackFrame
  \/ \E u \in TrackUsers : \E p \in PrefOptions : \E ts \in {clock, clock + 1} :
       SubmitPrefs(u, p, ts) /\ UNCHANGED drift /\ EnvFrame

\* SpecForm: TrackPreferenceForm on every posted triple, for the stored
\* selections, counts and capacity tables modelled
FormInit ==
  /\ TablesIdle
  /\ RunIdle
  /\ HistIdle
  /\ PackIdle
  /\ AllocIdle
  /\ RebalIdle
  /\ clock = 0
  /\ submits = 0
  /\ admins = 0
  /\ track_capacity \in CapacityTables \cup FewOpenTables
  /\ calls = CallsIdle
  /\ \E p \in FormData : \E initial \in FormInitials : \E counts \in FormCounts :
       form = [pc |-> "bound", data |-> p, initial |-> initial,
               counts |-> counts, cleaned |-> <<>>]

FormNext ==
  FormIsValid
    /\ UNCHANGED <<packVars, tableVars, budgetVars, runVars, histVars,
                   track_capacity, clock, submits, admins, alloc_runs, rebal_runs,
                   allocVars, rebalVars, calls>>

\* the tables the concurrent calls start on: the teams of TablesInit, of
\* which some have an entry that is Pending with the member count of the
\* team, Pending with an older member count, or Removed
RaceEntryKinds == {"none", "pending", "stale", "removed"}

RaceInit ==
  /\ \E z \in Rosters(MaxUsers - 1) :
       \E kind \in [1..Len(z) -> RaceEntryKinds] :
         LET opted == {c \in 1..Len(z) : kind[c] # "none"}
             removed == {c \in opted : kind[c] = "removed"}
         IN  /\ friends = InitFriends(z, opted \ removed)
             /\ app_status = [u \in Users |-> "pending"]
             /\ pool = [c \in opted |->
                  [NewEntry(IF kind[c] = "stale" THEN (z[c] % 3) + 1 ELSE z[c], c)
                     EXCEPT !.status = IF c \in removed THEN "removed"
                                       ELSE "pending"]]
             /\ events =
                  [i \in 1..Cardinality(opted) |->
                     LogEvent(SortByCode(opted)[i], "opt_in", FALSE)] \o
                  [i \in 1..Cardinality(removed) |->
                     LogEvent(SortByCode(removed)[i], "removed", FALSE)]
             /\ outbox = <<>>
  /\ drift = 0
  /\ optins = 0
  /\ RunIdle
  /\ HistIdle
  /\ PackIdle
  /\ TrackIdle

RaceFrame ==
  UNCHANGED <<packVars, budgetVars, runVars, histVars, track_capacity, clock,
              submits, admins, alloc_runs, rebal_runs, allocVars, rebalVars,
              form>>

RaceNext ==
  \/ \E k \in CallIds : \E u \in Users : \E t \in {0} \cup KnownCodes :
       CallBegin(k, u, t) /\ RaceFrame
  \/ \E k \in CallIds : CallCheck(k) /\ RaceFrame
  \/ \E k \in CallIds : CallLock(k) /\ RaceFrame
  \/ \E k \in CallIds : CallCommit(k) /\ RaceFrame

MatchInit ==
  /\ TablesInit
  /\ drift = 0
  /\ optins = 0
  /\ RunIdle
  /\ HistIdle
  /\ PackIdle
  /\ TrackIdle

OptInInit ==
  /\ \E z \in Rosters(MaxUsers) :
       /\ friends = InitFriends(z, {})
       /\ app_status = [u \in Users |-> "pending"]
  /\ pool = <<>>
  /\ events = <<>>
  /\ outbox = <<>>
  /\ drift = 0
  /\ optins = 0
  /\ RunIdle
  /\ HistIdle
  /\ PackIdle
  /\ TrackIdle

OptInNext ==
  \/ \E u \in Users : \E t \in {0} \cup KnownCodes : \E watch \in BOOLEAN :
       OptIn(u, t, watch) /\ UNCHANGED <<packVars, trackVars>>
  \/ RosterStep /\ UNCHANGED <<packVars, trackVars>>

MatchNext ==
  \/ \E p \in PassParams : RunBegin(p[1], p[2]) /\ UNCHANGED <<packVars, trackVars>>
  \/ MergeGroup /\ UNCHANGED <<packVars, trackVars>>
  \/ RunReturn /\ UNCHANGED <<packVars, trackVars>>
  \/ RosterStep /\ UNCHANGED <<packVars, trackVars>>

\* SpecMergeFail: matching passes in which a notification can fail
MergeFailInit ==
  /\ TablesInit
  /\ drift = 0
  /\ optins = 0
  /\ RunIdle
  /\ HistIdle
  /\ PackIdle
  /\ TrackIdle

MergeFailNext ==
  \/ \E p \in PassParams : RunBegin(p[1], p[2]) /\ UNCHANGED <<packVars, trackVars>>
  \/ MergeGroup /\ UNCHANGED <<packVars, trackVars>>
  \/ MergeGroupSendFails /\ UNCHANGED <<packVars, trackVars>>
  \/ RunReturn /\ UNCHANGED <<packVars, trackVars>>
  \/ \E u \in Users : \E st \in AppStatuses : SetStatus(u, st)
       /\ UNCHANGED <<packVars, trackVars>>

\* SpecReplay: opt-in calls before, during and after matching passes
ReplayInit ==
  /\ TablesInit
  /\ drift = 0
  /\ optins = 0
  /\ RunIdle
  /\ HistIdle
  /\ PackIdle
  /\ TrackIdle

ReplayNext ==
  \/ \E p \in PassParams :
       /\ passes < MaxReplayPasses
       /\ RunBegin(p[1], p[2])
       /\ UNCHANGED <<packVars, trackVars>>
  \/ MergeGroup /\ UNCHANGED <<packVars, trackVars>>
  \/ RunReturn /\ UNCHANGED <<packVars, trackVars>>
  \/ \E u \in Users : \E t \in {0} \cup KnownCodes :
       OptIn(u, t, TRUE) /\ UNCHANGED <<packVars, trackVars>>
  \/ /\ passes > 0
     /\ SetStatus(1, "confirmed")
     /\ UNCHANGED <<packVars, trackVars>>

\* SpecTwoPass: a matching pass with another pass between its steps
TwoPassInit ==
  /\ TablesInit
  /\ drift = 0
  /\ optins = 0
  /\ RunIdle
  /\ HistIdle
  /\ PackIdle
  /\ TrackIdle

TwoPassNext ==
  \/ \E p \in PassParams : RunBegin(p[1], p[2]) /\ UNCHANGED <<packVars, trackVars>>
  \/ MergeGroup /\ UNCHANGED <<packVars, trackVars>>
  \/ RunReturn /\ UNCHANGED <<packVars, trackVars>>
  \/ \E p \in PassParams : OtherPass(p[1], p[2]) /\ UNCHANGED <<packVars, trackVars>>

vars == <<packVars, tableVars, budgetVars, runVars, histVars, trackVars>>

PackNext ==
  \/ PackTake /\ UNCHANGED <<tableVars, budgetVars, runVars, histVars, trackVars>>
  \/ PackDeadline /\ UNCHANGED <<tableVars, budgetVars, runVars, histVars, trackVars>>
  \/ PackBreak /\ UNCHANGED <<tableVars, budgetVars, runVars, histVars, trackVars>>

PackInit ==
  /\ PackStart
  /\ TablesIdle
  /\ RunIdle
  /\ HistIdle
  /\ TrackIdle

SpecPack == PackInit /\ [][PackNext]_vars

SpecMatch == MatchInit /\ [][MatchNext]_vars

SpecOptIn == OptInInit /\ [][OptInNext]_vars

SpecReplay == ReplayInit /\ [][ReplayNext]_vars

SpecAlloc == AllocInit /\ [][AllocNext]_vars

SpecRebal == RebalInit /\ [][RebalNext]_vars

SpecPrefs == PrefsInit /\ [][PrefsNext]_vars

SpecMergeFail == MergeFailInit /\ [][MergeFailNext]_vars

SpecAllocFail == AllocFailInit /\ [][AllocFailNext]_vars

SpecForm == FormInit /\ [][FormNext]_vars

SpecRace == RaceInit /\ [][RaceNext]_vars

SpecTwoPass == TwoPassInit /\ [][TwoPassNext]_vars

SpecDryRun == DryRunInit /\ [][DryRunNext]_vars

(***************************************************************************)
(* Claims on the packing (SpecPack).                                       *)
(***************************************************************************)
\* how many of the codes U have re-validated count k
NumOfSize(U, k) == Cardinality({c \in U : member_counts[c] = k})

\* the codes not in any of the first i groups
UnusedAfter(i) ==
  {c \in 1..Len(member_counts) :
     \A j \in 1..i : c \notin Range(groups[j].codes)}

\* rule r of the target-4 list can be applied to the codes U
Rule4Applies(r, U) ==
  CASE r = 1 -> NumOfSize(U, 3) >= 1 /\ NumOfSize(U, 1) >= 1
    [] r = 2 -> NumOfSize(U, 2) >= 2
    [] r = 3 -> NumOfSize(U, 2) >= 1 /\ NumOfSize(U, 1) >= 2
    [] r = 4 -> NumOfSize(U, 1) >= 4

\* rule r of the target-3 list can be applied to the codes U
Rule3Applies(r, U) ==
  CASE r = 1 -> NumOfSize(U, 3) >= 1
    [] r = 2 -> NumOfSize(U, 2) >= 1 /\ NumOfSize(U, 1) >= 1
    [] r = 3 -> NumOfSize(U, 1) >= 3

\* the rule a group is an instance of, 0 when of none
Rule4Of(g) ==
  LET z == SizesOf(g, member_counts)
  IN  CASE z = <<3, 1>> -> 1
        [] z = <<2, 2>> -> 2
        [] z = <<2, 1, 1>> -> 3
        [] z = <<1, 1, 1, 1>> -> 4
        [] OTHER -> 0

Rule3Of(g) ==
  LET z == SizesOf(g, member_counts)
  IN  CASE z = <<3>> -> 1
        [] z = <<2, 1>> -> 2
        [] z = <<1, 1, 1>> -> 3
        [] OTHER -> 0

Groups4 == {i \in 1..Len(groups) : groups[i].target = TARGET_TEAM_SIZE}
Groups3 == {i \in 1..Len(groups) : groups[i].target = DEADLINE_TARGET}

\* C7: target-4 packing applies its rules in strict priority order at every
\* step: each group formed is a (3+1), (2+2), (2+1+1) or (1+1+1+1), no rule
\* of higher priority could be applied to the codes left when it was formed,
\* and the loop ends only when no rule can be applied; with counts 1, 2 and
\* 3 it forms the single group {3,1} and leaves the size-2 code ungrouped.
C7_PriorityOrder4 ==
  /\ \A i \in Groups4 :
        /\ Rule4Of(groups[i].codes) \in 1..4
        /\ \A r \in 1..4 :
              r < Rule4Of(groups[i].codes) => ~Rule4Applies(r, UnusedAfter(i - 1))
  /\ (pack_call = "run_matching" /\ pack_target # TARGET_TEAM_SIZE) =>
        \A r \in 1..4 :
          ~Rule4Applies(r, {c \in 1..Len(member_counts) :
                             \A j \in Groups4 : c \notin Range(groups[j].codes)})
  /\ (/\ pack_call = "run_matching"
      /\ pack_target = 0
      /\ Len(member_counts) = 3
      /\ Range(member_counts) = {1, 2, 3}) =>
        /\ Len(groups) = 1
        /\ SizesOf(groups[1].codes, member_counts) = <<3, 1>>
        /\ \A c \in 1..3 : member_counts[c] = 2 => c \notin used_codes

\* the scenario of C7 has run: counts 1, 2, 3 packed, one group formed
C7_Witness ==
  /\ pack_call = "run_matching"
  /\ pack_target = 0
  /\ member_counts = <<1, 2, 3>>
  /\ Len(groups) = 1

\* C8: groups of total size 3 are formed only with allow_size_three, only
\* from codes left unused by the finished target-4 packing of the pass, in
\* the order 3 alone, else 2+1, else 1+1+1; every other group sums to 4.
C8_DeadlineGroups ==
  /\ \A i \in 1..Len(groups) :
        /\ SumSeq(SizesOf(groups[i].codes, member_counts)) = groups[i].target
        /\ groups[i].target \in {TARGET_TEAM_SIZE, DEADLINE_TARGET}
  /\ \A i \in Groups3 :
        /\ Rule3Of(groups[i].codes) \in 1..3
        /\ \A r \in 1..3 :
              r < Rule3Of(groups[i].codes) => ~Rule3Applies(r, UnusedAfter(i - 1))
        /\ pack_call = "run_matching" =>
              /\ allow_size_three
              /\ \A j \in Groups4 :
                    /\ j < i
                    /\ Range(groups[j].codes) \cap Range(groups[i].codes) = {}
              /\ \A r \in 1..4 : ~Rule4Applies(r, UnusedAfter(i - 1))

\* a pass has formed a target-4 group and then a deadline group
C8_Witness ==
  /\ pack_call = "run_matching"
  /\ pack_target = 0
  /\ Groups4 # {}
  /\ Groups3 # {}

(***************************************************************************)
(* Claims on run_matching and _merge_entries, checked under SpecMatch.      *)
(***************************************************************************)
\* the users with a live row of code c in the rows fr
UsersWithCode(fr, c) ==
  {fr[i].user : i \in {j \in 1..Len(fr) : fr[j].live /\ fr[j].code = c}}

\* the step is the commit of a group
IsCommit == Len(results') = Len(results) + 1

\* the step begins a pass with the parameters of the pass before it
IsRerun ==
  /\ run_pc = "idle" /\ run_pc' = "merge"
  /\ run_allow3' = run_allow3 /\ run_trigger' = run_trigger

\* the step changes no pool entry, team row or audit event
NothingChanges ==
  /\ run_groups' = <<>>
  /\ pool' = pool
  /\ friends' = friends
  /\ events' = events

\* C1: in every committed group the eligible-member counts of its teams, as
\* they are at commit time, sum to the target the group was packed for (4,
\* or 3 for a group of the deadline packing), also when a roster changes
\* between the re-validation of the counts and the commit.
C1_CommittedSumsToTarget ==
  \A i \in 1..Len(results) : SumSeq(results[i].counts) = results[i].target

\* C2: after a group commit the users whose team code is the host code are
\* exactly the union of the members of the group's teams before the commit,
\* and no row carries a non-host code of the group.
C2_HostIsUnion ==
  [][IsCommit =>
       LET r == results'[Len(results')]
       IN  /\ UsersWithCode(friends', r.team_code) =
                UNION {UsersWithCode(friends, c) : c \in Range(r.codes)}
           /\ \A c \in Range(r.codes) \ {r.team_code} :
                UsersWithCode(friends', c) = {}]_vars

\* a group of at least two teams has been committed
C2_Witness ==
  \E i \in 1..Len(results) : Len(results[i].codes) >= 2

\* C3 as stated: a pass that begins right after a pass with the same
\* parameters has returned, with no opt-in and no roster or status change
\* between the two, commits no group and changes no pool entry, team row or
\* audit event.
C3_RerunIdle ==
  [][(IsRerun /\ since_return # "none") => NothingChanges]_vars

\* C3 amended: the same, when there was also no opt-in and no roster or
\* status change while the first pass ran.
C3_RerunIdleAfterCleanPass ==
  [][(IsRerun /\ since_return = "clean") => NothingChanges]_vars

\* a second pass with the same parameters has begun right after an
\* undisturbed pass that committed a group and left an entry Pending
C3_Witness ==
  /\ rerun = "clean"
  /\ run_pc = "merge"
  /\ \E c \in DOMAIN pool : pool[c].status = "matched"
  /\ \E c \in DOMAIN pool : pool[c].status = "pending"

(***************************************************************************)
(* Claims on process_opt_in_token, checked under SpecOptIn.                 *)
(***************************************************************************)
\* the step is a call with the token of the call the history follows, and
\* that call succeeded
IsRepeatOptIn ==
  /\ optins' = optins + 1
  /\ last_optin'.seq = optins'
  /\ last_optin'.user = last_optin.user
  /\ last_optin'.team_code = last_optin.team_code
  /\ last_optin.result \in {"added", "already_in_pool"}

\* the call answers 'already in the matching pool', the entry of the team is
\* Pending, and the one thing stored is a duplicate-flagged opt_in event
DuplicateOnly ==
  LET c == CurrentTeamCode(last_optin.user)
  IN  /\ last_optin'.result = "already_in_pool"
      /\ c \in DOMAIN pool
      /\ pool' = pool
      /\ pool'[c].status = "pending"
      /\ friends' = friends
      /\ outbox' = outbox
      /\ events' = Append(events, LogEvent(c, "opt_in", TRUE))

\* C5 as stated: a second call with the token of a call that succeeded, with
\* no matching pass and no roster change between the two, answers 'already
\* in the matching pool', leaves the one entry of the team Pending and only
\* appends a duplicate-flagged opt_in event.
C5_RepeatIsDuplicate ==
  [][(IsRepeatOptIn /\ optin_gap # "other") => DuplicateOnly]_vars

\* C5 amended: the same, when there was also no application status change
\* between the two calls.
C5_RepeatIsDuplicateNoStatusChange ==
  [][(IsRepeatOptIn /\ optin_gap = "none") => DuplicateOnly]_vars

\* a token was processed twice with nothing in between and the second call
\* answered 'already in the matching pool'
C5_Witness ==
  /\ last_optin.after = "none"
  /\ last_optin.result = "already_in_pool"
  /\ optin_gap = "none"

(***************************************************************************)
(* Claims on the Track Allocator, checked under SpecAlloc.                  *)
(***************************************************************************)
\* the tracks with a capacity
Capped == {t \in Tracks : track_capacity[t] # NoCap}

\* a pass has returned and no other step was taken since it began
AfterCleanPass ==
  /\ alloc_pc = "idle"
  /\ alloc_runs > 0
  /\ alloc_clean

MaxOf(a, b) == IF a >= b THEN a ELSE b

\* the teams the pass has assigned to track t
AssignedTo(t) == {i \in 1..Len(assignments) : assignments[i].track_code = t}

\* the candidate of the pass with code c
CandidateOf(c) == CHOOSE x \in Range(candidates) : x.code = c

MovedOff(t) == {i \in 1..Len(reassignments) : reassignments[i].old_track = t}

Tokens == Users \X ({0} \cup KnownCodes)

\* the step is the call with token k
IsOptIn(k) == \E watch \in BOOLEAN : OptIn(k[1], k[2], watch)

Rejections == {"not_eligible", "too_large", "already_matched"}

\* C14 as stated, for the tokens that name no team or whose user is on a
\* team: a call rejected as not eligible, too large or already matched
\* creates and changes no team row, no pool entry and no audit event.
C14_RejectionChangesNothing ==
  [][\A k \in Tokens :
       ( /\ IsOptIn(k)
         /\ k[2] = 0 \/ CurrentTeamCode(k[1]) # 0
         /\ OptInResult(k[1], k[2]) \in Rejections )
       => /\ friends' = friends
          /\ pool' = pool
          /\ events' = events]_vars

\* C15 as stated: the call works on the current team of the user when there
\* is one and creates no row; for a user on no team it creates one row, for
\* that user, with a code that no row and no entry carried, whatever code the
\* token names; an accepted call leaves the entry of that code Pending.
C15_CurrentTeamOrFreshTeam ==
  [][\A k \in Tokens :
       IsOptIn(k) =>
         LET u == k[1]
             last == friends'[Len(friends')]
             code == IF CurrentTeamCode(u) # 0 THEN CurrentTeamCode(u)
                     ELSE last.code
         IN  /\ IF CurrentTeamCode(u) # 0
                THEN Len(friends') = Len(friends)
                ELSE /\ Len(friends') = Len(friends) + 1
                     /\ last.user = u
                     /\ last.code \notin KnownCodes
             /\ OptInResult(u, k[2]) = "added" =>
                  /\ code \in DOMAIN pool'
                  /\ pool'[code].status = "pending"]_vars

(***************************************************************************)
(* Claims on opt-in calls for teams with a Matched entry, checked under     *)
(* SpecReplay.                                                              *)
(***************************************************************************)
\* the step is an opt-in call the history follows, by a user whose current
\* team has a Matched entry
IsOptInOfMatched ==
  /\ optins' = optins + 1
  /\ last_optin'.seq = optins'
  /\ CurrentTeamCode(last_optin'.user) \in DOMAIN pool
  /\ pool[CurrentTeamCode(last_optin'.user)].status = "matched"

\* the members of the current team of u, if all of them are pending
PendingTeam(u) ==
  IF \A v \in MembersOf(CurrentTeamCode(u)) : app_status[v] = "pending"
  THEN MembersOf(CurrentTeamCode(u)) ELSE {}

\* C16 as stated: a call by a user whose current team has a Matched entry
\* answers 'already matched'.
C16_MatchedEntryAnswersAlreadyMatched ==
  [][IsOptInOfMatched => last_optin'.result = "already_matched"]_vars

\* C16 amended: a call by a user whose current team has a Matched entry
\* answers 'already matched' when the team has 1 to 3 members, all pending;
\* it answers 'too large' when the team has more than 3 members, all pending,
\* as the team of 4 a merge made, and 'not eligible' when a member is not
\* pending; in each case the tables stay as they are.
C16_MatchedEntryAnswers ==
  [][IsOptInOfMatched =>
       /\ last_optin'.result =
            IF PendingTeam(last_optin'.user) = {} THEN "not_eligible"
            ELSE IF Cardinality(PendingTeam(last_optin'.user)) > 3 THEN "too_large"
            ELSE "already_matched"
       /\ UNCHANGED <<friends, pool, events, outbox>>]_vars

\* a member of a team that a pass merged replayed a token and was answered
\* 'already matched'; the entry of the team is still Matched
C16_Witness ==
  /\ last_optin.result = "already_matched"
  /\ results # <<>>
  /\ CurrentTeamCode(last_optin.user) = results[Len(results)].team_code
  /\ pool[CurrentTeamCode(last_optin.user)].status = "matched"
  /\ Cardinality(MembersOf(CurrentTeamCode(last_optin.user))) = 3

(***************************************************************************)
(* Claims on the commit of a group, checked under SpecMatch.                *)
(***************************************************************************)
\* the step hands the next group of the pass to _merge_entries
IsMergeStep ==
  /\ run_pc = "merge"
  /\ run_groups # <<>>
  /\ run_groups' = Tail(run_groups)

\* the teams of the next group that have no eligible member
Offending ==
  {c \in Range(Head(run_groups).codes) : EligibleTeamMembers(c) = {}}

\* C17: when _merge_entries finds a team of the group without eligible
\* members, the group is not committed: one offending entry, and no other
\* entry, becomes Removed, with one Removed event appended and seeking_merge
\* cleared on the rows of its code; every other entry of the group was
\* Pending and stays as it is, no row changes its code, no notification is
\* sent and no result is recorded.
C17_AbortRemovesOffender ==
  [][(IsMergeStep /\ Offending # {}) =>
       /\ \E c \in Offending :
            /\ pool'[c].status = "removed"
            /\ \A e \in DOMAIN pool \ {c} : pool'[e] = pool[e]
            /\ events' = Append(events, LogEvent(c, "removed", FALSE))
            /\ \A i \in 1..Len(friends) :
                 friends'[i] = IF friends[i].live /\ friends[i].code = c
                               THEN [friends[i] EXCEPT !.seeking_merge = FALSE]
                               ELSE friends[i]
            /\ \A e \in Range(Head(run_groups).codes) \ {c} :
                 pool[e].status = "pending" /\ pool'[e].status = "pending"
       /\ DOMAIN pool' = DOMAIN pool
       /\ Len(friends') = Len(friends)
       /\ outbox' = outbox
       /\ results' = results]_vars

\* a pass has aborted a group: an entry was Removed after the re-validation
\* of the pass had kept it, its rows seek no merge, another entry is Pending
\* and no group was committed
C17_Witness ==
  /\ run_pc = "merge"
  /\ run_groups = <<>>
  /\ results = <<>>
  /\ outbox = <<>>
  /\ \E c \in DOMAIN pool :
       /\ pool[c].status = "removed"
       /\ RowsOf(c) # {}
       /\ \A i \in RowsOf(c) : ~friends[i].seeking_merge
       /\ \E u \in MembersOf(c) : app_status[u] # "pending"
       /\ \E e \in DOMAIN pool \ {c} :
            /\ pool[e].status = "pending"
            /\ \E i \in RowsOf(e) : friends[i].seeking_merge
  /\ events # <<>>
  /\ events[Len(events)].event_type = "removed"

\* the events a step appends
NewEvents == SubSeq(events', Len(events) + 1, Len(events'))

\* how many of the events evs are of type ty for the entry of code c
CountEvents(evs, c, ty) ==
  Cardinality({i \in 1..Len(evs) : evs[i].entry = c /\ evs[i].event_type = ty})

IsAllocBegin == alloc_pc = "idle" /\ alloc_pc' = "loop"

\* the first row of team c
Representative(c) == friends[SetMin(RowsOf(c))]

\* the pass that begins collects team c: a row of it has no track and a
\* first preference
Considered(c) ==
  \E i \in RowsOf(c) : friends[i].track_assigned = "" /\ friends[i].track_pref[1] # ""

\* the skipped list sk reports team c with reason r
Reported(sk, c, r) ==
  \E i \in 1..Len(sk) : sk[i] = [team_code |-> c, reason |-> r]

\* team c is among the candidates cs
IsCandidate(cs, c) ==
  \E i \in 1..Len(cs) : cs[i].code = c

FirstOnly(p) == p[1] # "" /\ p[2] = "" /\ p[3] = ""

\* track t has room under the counts
HasRoom(t, counts) ==
  track_capacity[t] = NoCap \/ counts[t] < track_capacity[t]

\* team c has no track, and a first preference only, on every row
FirstOnlyTeam(c) ==
  /\ RowsOf(c) # {}
  /\ \A i \in RowsOf(c) :
       friends[i].track_assigned = "" /\ FirstOnly(friends[i].track_pref)

\* the step handles one candidate of the pass
IsAllocStep == alloc_pc = "loop" /\ alloc_idx' = alloc_idx + 1

IsMergeSendFailure == run_pc = "merge" /\ run_pc' = "raised"

\* C18: when the merge notification of a group fails, the entries of the
\* group are Matched with the host code and the rows of its other teams
\* carry the host code.
C18_FailedSendKeepsMerge ==
  [][IsMergeSendFailure =>
       LET codes == Head(run_groups).codes
           host == HostOf(codes, [c \in Range(codes) |-> EligibleTeamMembers(c)])
       IN  \A c \in Range(codes) :
             /\ pool'[c].status = "matched"
             /\ pool'[c].matched_team_code = host
             /\ c # host => UsersWithCode(friends', c) = {}]_vars

\* every assignment the pass recorded is on the rows of its team
AssignmentsStored ==
  \A i \in 1..Len(assignments) :
    /\ RowsOf(assignments[i].team_code) # {}
    /\ \A k \in RowsOf(assignments[i].team_code) :
         friends[k].track_assigned = assignments[i].track_code

\* a pass that raised on a failed track notification leaves the assignment
\* it reports, and those made before it, on the rows (holds in SpecAllocFail)
RaisedPassKeepsAssignments ==
  alloc_pc = "raised" => (assignments # <<>> /\ AssignmentsStored)

IsRunBegin == run_pc = "idle" /\ run_pc' = "merge"

\* the team of code c has no eligible member, or 4 or more
OutOfRange(c) ==
  TeamMemberCount(c) = 0 \/ TeamMemberCount(c) >= TARGET_TEAM_SIZE

\* C21: the re-validation at the start of a pass makes every Pending entry
\* whose team has 0, or 4 or more, eligible members Removed, appends one
\* Removed event for it, clears seeking_merge on the rows of its team and
\* places it in no group; and when a pass has returned with no roster or
\* status change since it began, no Pending entry has such a team.
C21_OutOfRangeIsRemoved ==
  [][/\ IsRunBegin =>
          \A c \in DOMAIN pool :
            (pool[c].status = "pending" /\ OutOfRange(c)) =>
              /\ pool'[c].status = "removed"
              /\ CountEvents(NewEvents, c, "removed") = 1
              /\ \A i \in RowsOf(c) : ~friends'[i].seeking_merge
              /\ \A i \in 1..Len(run_groups') : c \notin Range(run_groups'[i].codes)
     /\ since_return' = "clean" =>
          \A c \in DOMAIN pool' :
            pool'[c].status = "pending" =>
              /\ Cardinality(EligibleIn(friends', c)) > 0
              /\ Cardinality(EligibleIn(friends', c)) < TARGET_TEAM_SIZE]_vars

\* an undisturbed pass has returned that removed the entry of a team of 4
\* and left another entry Pending
C21_Witness ==
  /\ since_return = "clean"
  /\ \E c \in DOMAIN pool :
       /\ pool[c].status = "removed"
       /\ TeamMemberCount(c) >= TARGET_TEAM_SIZE
       /\ \A i \in RowsOf(c) : ~friends[i].seeking_merge
       /\ CountEvents(events, c, "removed") = 1
  /\ \E c \in DOMAIN pool : pool[c].status = "pending"

(***************************************************************************)
(* Claims on the steps of the Track Rebalancer, checked under SpecRebal.    *)
(***************************************************************************)
\* the step takes the next track of the pass
IsRebalTrack ==
  rebal_pc = "loop" /\ rebal_tracks # <<>> /\ rebal_tracks' = Tail(rebal_tracks)

\* the step handles one selected team
IsRebalStep ==
  rebal_pc = "loop" /\ rebal_queue # <<>> /\ rebal_queue' = Tail(rebal_queue)

\* the codes with a row on track t
CodesOn(t) ==
  {friends[i].code : i \in {j \in LiveRows : friends[j].track_assigned = t}}

\* the second and third preferences of row r that are tracks outside
\* BANORTE_TRACKS with room under the counts of the pass
ViableTracks(r) ==
  {r.track_pref[idx] : idx \in {j \in {2, 3} :
      /\ r.track_pref[j] # ""
      /\ r.track_pref[j] \notin BANORTE_TRACKS
      /\ \/ track_capacity[r.track_pref[j]] = NoCap
         \/ rebal_counts[r.track_pref[j]] < track_capacity[r.track_pref[j]]}}

Selected(p) == Range(p) \ {""}

\* the tracks open for the form
FormOpen == OpenTracks(form.counts, track_capacity)

\* the form has been found valid
FormAccepted == form.pc = "done" /\ form.cleaned # <<>>

\* the selection s is as the form demands: at least min(3, open tracks)
\* tracks, no track twice, each open or in the stored selection
WellFormed(s) ==
  /\ Cardinality(Selected(s)) >= RequiredChoices(form.counts, track_capacity)
  /\ \A i, j \in 1..3 : (i # j /\ s[i] # "") => s[i] # s[j]
  /\ Selected(s) \subseteq FormOpen \cup Selected(form.initial)

Succeeded(k) == calls[k].result \in {"added", "already_in_pool"}

\* every call has returned; calls j and k were made by two members of one
\* team, which no other call has given a new row
SameTeamCalls(j, k) ==
  /\ j # k
  /\ \A i \in CallIds : calls[i].pc \in {"idle", "done"}
  /\ calls[j].pc = "done" /\ calls[k].pc = "done"
  /\ calls[j].user # calls[k].user
  /\ calls[j].team_code = calls[k].team_code
  /\ \A i \in CallIds : calls[i].team_code = calls[j].team_code => ~calls[i].created

\* the step is the return of call k with success
IsCallSuccess(k) == calls[k].pc # "done" /\ calls'[k].pc = "done" /\ Succeeded(k)'

\* C24 as stated: after concurrent calls by two members of one team of which
\* one succeeded, the team has an entry, which is Pending and whose
\* member_count is the number of eligible members of the team.
C24_ConcurrentOptInsRefreshEntry ==
  \A j, k \in CallIds :
    (SameTeamCalls(j, k) /\ Succeeded(j)) =>
      LET c == calls[j].team_code
      IN  /\ c \in DOMAIN pool
          /\ pool[c].status = "pending"
          /\ pool[c].member_count = TeamMemberCount(c)

\* C24 as amended: after concurrent calls by two members of one team of
\* which one succeeded, the team has an entry (the table holds one entry for
\* a code), which is Pending; when one of the calls wrote the entry, its
\* member_count is the number of eligible members of the team and every row
\* of the team is seeking; when both found it Pending its member_count is as
\* stored. Every call that succeeds appends exactly one OptIn event for its
\* team, whatever the interleaving.
C24_ConcurrentOptInsLeaveOneEntry ==
  /\ [](\A j, k \in CallIds :
          (SameTeamCalls(j, k) /\ Succeeded(j)) =>
            LET c == calls[j].team_code
            IN  /\ c \in DOMAIN pool
                /\ pool[c].status = "pending"
                /\ calls[j].result = "added" =>
                     /\ pool[c].member_count = TeamMemberCount(c)
                     /\ \A i \in RowsOf(c) : friends[i].seeking_merge)
  /\ [][\A k \in CallIds :
          IsCallSuccess(k) =>
            events' = Append(events,
                        LogEvent(calls'[k].team_code, "opt_in",
                                 calls'[k].result = "already_in_pool"))]_vars

\* two members of a team whose entry was Removed have both found it Removed
\* and both written it: one entry, Pending, with three OptIn events
C24_Witness ==
  \E j, k \in CallIds :
    /\ SameTeamCalls(j, k)
    /\ calls[j].result = "added" /\ calls[k].result = "added"
    /\ pool[calls[j].team_code].status = "pending"
    /\ CountEvents(events, calls[j].team_code, "removed") = 1
    /\ CountEvents(events, calls[j].team_code, "opt_in") = 3

(***************************************************************************)
(* Claim on the team rows of a member, checked under SpecRace.              *)
(***************************************************************************)
\* the live rows of user u
RowsOfUser(u) == {i \in LiveRows : friends[i].user = u}

\* C25: every member has at most one team row, that is, belongs to at most
\* one team, also after concurrent opt-ins of a member who has no team.
C25_AtMostOneTeamRow ==
  \A u \in Users : Cardinality(RowsOfUser(u)) <= 1

(***************************************************************************)
(* Claim on the entries a pass commits, checked under SpecTwoPass.          *)
(***************************************************************************)
\* C26: the entries a pass marks Matched when it commits a group are Pending
\* when it commits, whatever they were when the pass took its snapshot.
C26_OnlyPendingIsMatched ==
  [][(IsMergeStep /\ IsCommit) =>
       \A c \in Range(Head(run_groups).codes) : pool[c].status = "pending"]_vars

(***************************************************************************)
(* Claims on the order and the completeness of the packing, checked under   *)
(* SpecPack. Codes are 1..n in created_at order.                            *)
(***************************************************************************)
\* the codes in no group so far
Ungrouped == (1..Len(member_counts)) \ used_codes

\* C27: within a size bucket the packing is first in, first out: of two
\* entries with the same re-validated count, the one created later is in a
\* group only if the one created earlier is.
C27_FifoWithinBucket ==
  \A c, e \in 1..Len(member_counts) :
    (c < e /\ member_counts[c] = member_counts[e] /\ e \in used_codes) =>
      c \in used_codes

\* the packing is over and of two entries of one size it has grouped the
\* earlier and left the later
C27_Witness ==
  /\ pack_target = 0
  /\ \E c, e \in 1..Len(member_counts) :
       /\ c < e
       /\ member_counts[c] = member_counts[e]
       /\ c \in used_codes
       /\ e \notin used_codes

\* the sum of the re-validated counts of the codes S
RECURSIVE SumCounts(_)
SumCounts(S) ==
  IF S = {} THEN 0
  ELSE LET c == CHOOSE x \in S : TRUE
       IN  member_counts[c] + SumCounts(S \ {c})

\* the loop for pack_target is at its break
AtBreak == pack_target # 0 /\ TakeGroup(size_buckets, pack_target) = <<>>

\* C29: when _build_match_groups for target 4 (for target 3) breaks, no set
\* of entries it has left ungrouped has counts that sum to exactly 4 (to 3);
\* and no entry is in more than one group or twice in a group.
C29_NothingLeftThatFits ==
  /\ AtBreak => \A S \in SUBSET Ungrouped : SumCounts(S) # pack_target
  /\ \A i, j \in 1..Len(groups) :
       i # j => Range(groups[i].codes) \cap Range(groups[j].codes) = {}
  /\ \A i \in 1..Len(groups) :
       Cardinality(Range(groups[i].codes)) = Len(groups[i].codes)

\* the target-3 loop breaks after forming a group of three and
\* leaves two or more entries
C29_Witness ==
  /\ AtBreak
  /\ pack_target = DEADLINE_TARGET
  /\ groups # <<>>
  /\ groups[Len(groups)].target = DEADLINE_TARGET
  /\ Cardinality(Ungrouped) >= 2

(***************************************************************************)
(* Claim on the dry run of the allocator, checked under SpecDryRun.         *)
(***************************************************************************)
\* the step is the return of the pass
IsAllocReturn == alloc_pc = "loop" /\ alloc_pc' = "idle"

C30_MatchedIsAbsorbing ==
  /\ [][\A c \in DOMAIN pool :
          pool[c].status = "matched" =>
            /\ pool'[c].status = "matched"
            /\ pool'[c].matched_team_code = pool[c].matched_team_code
            /\ pool'[c].trigger = pool[c].trigger]_vars
  /\ [](\A c \in DOMAIN pool :
          pool[c].matched_team_code # 0 <=> pool[c].status = "matched")
====
